---- MODULE Spec2Model ----
\* Catalog query engine of backend/server.py: the in-memory dataset
\* SAAS_SERVICES and the four read handlers get_services, get_service,
\* get_categories and get_cheapest_by_category.
\*
\* Strings are modelled as sequences of one-character strings, so that
\* str.lower(), the substring test (in), str.replace, re.findall, int() and
\* the code-point order of str comparison are computed, not assumed.
EXTENDS Integers, Sequences, FiniteSets, TLC

\* ------------------------------------------------------------------ bounds
\* Largest number of services in a generated catalog.
MaxServices == 3

\* Largest number of tokens in a generated price string.
MaxTokens == 3

\* ------------------------------------------------------- Python str model
\* Printable ASCII in code-point order; Ascii[i] has code point i + 31. The
\* double quote, the backslash and the backtick are written by name.
Ascii == <<" ","!","DQUOTE","#","$","%","&","'","(",")","*","+",",","-",".","/","0","1","2","3","4","5","6","7","8","9",":",";","<","=",">","?","@","A","B","C","D","E","F","G","H","I","J","K","L","M","N","O","P","Q","R","S","T","U","V","W","X","Y","Z","[","BACKSLASH","]","^","_","BACKTICK","a","b","c","d","e","f","g","h","i","j","k","l","m","n","o","p","q","r","s","t","u","v","w","x","y","z","{","|","}","~">>

Rupee == "₹"

Chars == {Ascii[i] : i \in 1..Len(Ascii)} \cup {Rupee}

\* ord(c): the Unicode code point of a character.
Ord == [c \in Chars |-> IF c = Rupee THEN 8377
                        ELSE 31 + (CHOOSE i \in 1..Len(Ascii) : Ascii[i] = c)]

\* str.lower() on one character: A-Z (65..90) map to a-z, all else is kept.
LowerChar == [c \in Chars |-> IF Ord[c] >= 65 /\ Ord[c] <= 90
                              THEN Ascii[Ord[c] + 32 - 31] ELSE c]

\* s.lower()
Lower(s) == [i \in 1..Len(s) |-> LowerChar[s[i]]]

\* sub in s
Contains(sub, s) ==
  \E i \in 0..(Len(s) - Len(sub)) : SubSeq(s, i + 1, i + Len(sub)) = sub

\* a < b on str: lexicographic by code point, a proper prefix is smaller.
StrLess(a, b) ==
  \E i \in 1..(Len(a) + 1) :
     /\ i <= Len(b)
     /\ \A j \in 1..(i - 1) : a[j] = b[j]
     /\ (i = Len(a) + 1 \/ Ord[a[i]] < Ord[b[i]])

\* s.replace(old, '') for a one-character old
ReplaceChar(s, old) == SelectSeq(s, LAMBDA c : c # old)

\* The character class [\d,] of the pattern r'[\d,]+'
IsDigit(c) == Ord[c] >= 48 /\ Ord[c] <= 57

InClass(c) == IsDigit(c) \/ c = ","

\* Length of the longest prefix of s made of class characters.
RunLen(s) ==
  LET others == {i \in 1..Len(s) : ~InClass(s[i])}
  IN  IF others = {} THEN Len(s)
      ELSE (CHOOSE i \in others : \A j \in others : i <= j) - 1

\* re.findall(r'[\d,]+', s): the maximal runs of class characters, in order.
RECURSIVE FindAll(_)
FindAll(s) ==
  LET starts == {i \in 1..Len(s) : InClass(s[i])}
  IN  IF starts = {} THEN <<>>
      ELSE LET from == CHOOSE i \in starts : \A j \in starts : i <= j
               n    == RunLen(SubSeq(s, from, Len(s)))
           IN  <<SubSeq(s, from, from + n - 1)>>
                 \o FindAll(SubSeq(s, from + n, Len(s)))

\* The longest digit string int() converts (CPython's
\* sys.int_info.default_max_str_digits).
IntMaxStrDigits == 4300

\* int(s) raises ValueError: the string has more digits than int() converts.
IntRaises(s) == Len(s) > IntMaxStrDigits

\* int(s) for a string of decimal digits that int() converts.
RECURSIVE ParseInt(_)
ParseInt(s) ==
  IF s = <<>> THEN 0
  ELSE 10 * ParseInt(SubSeq(s, 1, Len(s) - 1)) + (Ord[s[Len(s)]] - 48)

\* Optional[str]: None is the empty tuple, a present value s is <<s>>.
None == <<>>

Some(s) == <<s>>

\* Truthy that only tests for None.
Truthy_present(opt) == opt # None

\* Truthiness of an Optional[str]: None and "" are falsy.
Truthy(opt) == opt # None /\ opt[1] # <<>>

\* String literals of the handlers.
STR_all == <<"a","l","l">>

STR_rupee0 == <<"₹","0">>

STR_Free == <<"F","r","e","e">>

STR_Custom == <<"C","u","s","t","o","m">>

\* ------------------------------------------------------------ the dataset
\* The dataset literal SAAS_SERVICES of server.py (link and logo_url, which no
\* handler reads, are left out). A string is the sequence of its characters.
ReferenceDataset == <<
  \* Render
  [id |-> <<"r","e","n","d","e","r">>,
   name |-> <<"R","e","n","d","e","r">>,
   category |-> <<"H","o","s","t","i","n","g">>,
   description |-> <<"C","l","o","u","d"," ","p","l","a","t","f","o","r","m"," ","f","o","r"," ","s","t","a","t","i","c"," ","s","i","t","e","s",","," ","w","e","b"," ","s","e","r","v","i","c","e","s",","," ","a","n","d"," ","d","a","t","a","b","a","s","e","s">>,
   tiers |-> <<
     [name |-> <<"F","r","e","e">>,
      price |-> <<"₹","0","/","m","o","n","t","h">>,
      features |-> <<
        <<"7","5","0"," ","h","o","u","r","s","/","m","o","n","t","h">>,
        <<"F","r","e","e"," ","s","t","a","t","i","c"," ","s","i","t","e","s">>,
        <<"1","5"," ","m","i","n"," ","i","d","l","e"," ","t","i","m","e","o","u","t">> >>],
     [name |-> <<"S","t","a","r","t","e","r">>,
      price |-> <<"₹","5","2","5","/","m","o","n","t","h">>,
      features |-> <<
        <<"2"," ","G","B"," ","R","A","M">>,
        <<"1","0","0"," ","G","B"," ","b","a","n","d","w","i","d","t","h">>,
        <<"A","l","w","a","y","s","-","o","n"," ","s","e","r","v","i","c","e">> >>],
     [name |-> <<"S","t","a","n","d","a","r","d">>,
      price |-> <<"₹","1",",","8","7","5","/","m","o","n","t","h">>,
      features |-> <<
        <<"4"," ","G","B"," ","R","A","M">>,
        <<"2","0","0"," ","G","B"," ","b","a","n","d","w","i","d","t","h">>,
        <<"P","r","i","o","r","i","t","y"," ","s","u","p","p","o","r","t">> >>],
     [name |-> <<"P","r","o">>,
      price |-> <<"C","u","s","t","o","m">>,
      features |-> <<
        <<"C","u","s","t","o","m"," ","r","e","s","o","u","r","c","e","s">>,
        <<"D","e","d","i","c","a","t","e","d"," ","s","u","p","p","o","r","t">>,
        <<"E","n","t","e","r","p","r","i","s","e"," ","f","e","a","t","u","r","e","s">> >>] >>,
   advantages |-> <<
     <<"E","a","s","y"," ","d","e","p","l","o","y","m","e","n","t">>,
     <<"F","r","e","e"," ","t","i","e","r"," ","a","v","a","i","l","a","b","l","e">>,
     <<"A","u","t","o"," ","S","S","L"," ","c","e","r","t","i","f","i","c","a","t","e","s">>,
     <<"G","i","t"," ","i","n","t","e","g","r","a","t","i","o","n">> >>,
   disadvantages |-> <<
     <<"C","o","l","d"," ","s","t","a","r","t","s"," ","o","n"," ","f","r","e","e"," ","t","i","e","r">>,
     <<"L","i","m","i","t","e","d"," ","r","e","g","i","o","n","s">>,
     <<"H","i","g","h","e","r"," ","c","o","s","t","s"," ","f","o","r"," ","h","i","g","h"," ","t","r","a","f","f","i","c">> >>],
  \* Vercel
  [id |-> <<"v","e","r","c","e","l">>,
   name |-> <<"V","e","r","c","e","l">>,
   category |-> <<"H","o","s","t","i","n","g">>,
   description |-> <<"F","r","o","n","t","e","n","d"," ","c","l","o","u","d"," ","p","l","a","t","f","o","r","m"," ","o","p","t","i","m","i","z","e","d"," ","f","o","r"," ","N","e","x","t",".","j","s"," ","a","n","d"," ","R","e","a","c","t">>,
   tiers |-> <<
     [name |-> <<"H","o","b","b","y">>,
      price |-> <<"₹","0","/","m","o","n","t","h">>,
      features |-> <<
        <<"U","n","l","i","m","i","t","e","d"," ","w","e","b","s","i","t","e","s">>,
        <<"1","0","0"," ","G","B"," ","b","a","n","d","w","i","d","t","h">>,
        <<"1",",","0","0","0"," ","b","u","i","l","d"," ","m","i","n","u","t","e","s">> >>],
     [name |-> <<"P","r","o">>,
      price |-> <<"₹","1",",","5","0","0","/","u","s","e","r","/","m","o","n","t","h">>,
      features |-> <<
        <<"1"," ","T","B"," ","b","a","n","d","w","i","d","t","h">>,
        <<"1","0",",","0","0","0"," ","b","u","i","l","d"," ","m","i","n","u","t","e","s">>,
        <<"T","e","a","m"," ","c","o","l","l","a","b","o","r","a","t","i","o","n">> >>],
     [name |-> <<"E","n","t","e","r","p","r","i","s","e">>,
      price |-> <<"C","u","s","t","o","m">>,
      features |-> <<
        <<"U","n","l","i","m","i","t","e","d"," ","b","a","n","d","w","i","d","t","h">>,
        <<"A","d","v","a","n","c","e","d"," ","s","e","c","u","r","i","t","y">>,
        <<"P","r","i","o","r","i","t","y"," ","s","u","p","p","o","r","t">> >>] >>,
   advantages |-> <<
     <<"F","a","s","t"," ","g","l","o","b","a","l"," ","C","D","N">>,
     <<"P","e","r","f","e","c","t"," ","f","o","r"," ","N","e","x","t",".","j","s">>,
     <<"E","x","c","e","l","l","e","n","t"," ","D","X">>,
     <<"E","d","g","e"," ","f","u","n","c","t","i","o","n","s">> >>,
   disadvantages |-> <<
     <<"H","i","g","h","e","r"," ","c","o","s","t","s"," ","f","o","r"," ","b","a","n","d","w","i","d","t","h">>,
     <<"L","i","m","i","t","e","d"," ","b","a","c","k","e","n","d"," ","o","p","t","i","o","n","s">>,
     <<"F","u","n","c","t","i","o","n"," ","t","i","m","e","o","u","t"," ","l","i","m","i","t","s">> >>],
  \* Netlify
  [id |-> <<"n","e","t","l","i","f","y">>,
   name |-> <<"N","e","t","l","i","f","y">>,
   category |-> <<"H","o","s","t","i","n","g">>,
   description |-> <<"A","l","l","-","i","n","-","o","n","e"," ","p","l","a","t","f","o","r","m"," ","f","o","r"," ","w","e","b"," ","d","e","v","e","l","o","p","m","e","n","t"," ","a","n","d"," ","d","e","p","l","o","y","m","e","n","t">>,
   tiers |-> <<
     [name |-> <<"F","r","e","e">>,
      price |-> <<"₹","0","/","m","o","n","t","h">>,
      features |-> <<
        <<"1","0","0"," ","G","B"," ","b","a","n","d","w","i","d","t","h">>,
        <<"1"," ","G","B"," ","s","t","o","r","a","g","e">>,
        <<"5","0"," ","b","u","i","l","d"," ","m","i","n","u","t","e","s">> >>],
     [name |-> <<"B","a","s","i","c">>,
      price |-> <<"₹","6","7","5","/","s","i","t","e","/","m","o","n","t","h">>,
      features |-> <<
        <<"5","0"," ","G","B"," ","b","a","n","d","w","i","d","t","h">>,
        <<"5"," ","G","B"," ","s","t","o","r","a","g","e">>,
        <<"1","0","0"," ","b","u","i","l","d"," ","m","i","n","u","t","e","s">> >>],
     [name |-> <<"A","d","v","a","n","c","e","d">>,
      price |-> <<"₹","2",",","1","7","5","/","s","i","t","e","/","m","o","n","t","h">>,
      features |-> <<
        <<"1","0","0"," ","G","B"," ","b","a","n","d","w","i","d","t","h">>,
        <<"2","5"," ","G","B"," ","s","t","o","r","a","g","e">>,
        <<"3","5","0"," ","b","u","i","l","d"," ","m","i","n","u","t","e","s">> >>],
     [name |-> <<"P","r","o">>,
      price |-> <<"₹","3",",","6","7","5","/","s","i","t","e","/","m","o","n","t","h">>,
      features |-> <<
        <<"1"," ","T","B"," ","b","a","n","d","w","i","d","t","h">>,
        <<"1","0","0"," ","G","B"," ","s","t","o","r","a","g","e">>,
        <<"6","0","0"," ","b","u","i","l","d"," ","m","i","n","u","t","e","s">> >>] >>,
   advantages |-> <<
     <<"G","e","n","e","r","o","u","s"," ","f","r","e","e"," ","t","i","e","r">>,
     <<"F","o","r","m"," ","h","a","n","d","l","i","n","g">>,
     <<"S","p","l","i","t"," ","t","e","s","t","i","n","g">>,
     <<"B","r","a","n","c","h"," ","d","e","p","l","o","y","s">> >>,
   disadvantages |-> <<
     <<"B","u","i","l","d"," ","m","i","n","u","t","e"," ","l","i","m","i","t","s">>,
     <<"P","r","i","c","i","n","g"," ","p","e","r"," ","s","i","t","e">>,
     <<"F","u","n","c","t","i","o","n"," ","l","i","m","i","t","a","t","i","o","n","s">> >>],
  \* Railway
  [id |-> <<"r","a","i","l","w","a","y">>,
   name |-> <<"R","a","i","l","w","a","y">>,
   category |-> <<"H","o","s","t","i","n","g">>,
   description |-> <<"I","n","f","r","a","s","t","r","u","c","t","u","r","e"," ","p","l","a","t","f","o","r","m"," ","f","o","r"," ","d","e","p","l","o","y","i","n","g"," ","a","n","d"," ","s","c","a","l","i","n","g"," ","a","p","p","l","i","c","a","t","i","o","n","s">>,
   tiers |-> <<
     [name |-> <<"H","o","b","b","y">>,
      price |-> <<"₹","3","7","5","/","m","o","n","t","h">>,
      features |-> <<
        <<"₹","3","7","5"," ","u","s","a","g","e"," ","c","r","e","d","i","t">>,
        <<"5","0","0"," ","G","B"," ","t","r","a","n","s","f","e","r">>,
        <<"S","h","a","r","e","d"," ","C","P","U">> >>],
     [name |-> <<"P","r","o">>,
      price |-> <<"₹","1",",","5","0","0","/","m","e","m","b","e","r","/","m","o","n","t","h">>,
      features |-> <<
        <<"₹","7","5","0"," ","u","s","a","g","e"," ","c","r","e","d","i","t">>,
        <<"P","r","i","o","r","i","t","y"," ","b","u","i","l","d","s">>,
        <<"T","e","a","m"," ","f","e","a","t","u","r","e","s">> >>],
     [name |-> <<"R","e","s","o","u","r","c","e"," ","U","s","a","g","e">>,
      price |-> <<"₹","7","5","0","/","v","C","P","U","/","m","o","n","t","h">>,
      features |-> <<
        <<"P","a","y"," ","p","e","r"," ","r","e","s","o","u","r","c","e">>,
        <<"₹","7","5","0","/","G","B"," ","m","e","m","o","r","y">>,
        <<"₹","7",".","5","0","/","G","B"," ","t","r","a","n","s","f","e","r">> >>] >>,
   advantages |-> <<
     <<"S","i","m","p","l","e"," ","d","e","p","l","o","y","m","e","n","t">>,
     <<"D","a","t","a","b","a","s","e"," ","i","n","c","l","u","d","e","d">>,
     <<"R","e","s","o","u","r","c","e","-","b","a","s","e","d"," ","p","r","i","c","i","n","g">>,
     <<"D","o","c","k","e","r"," ","s","u","p","p","o","r","t">> >>,
   disadvantages |-> <<
     <<"N","o"," ","f","r","e","e"," ","t","i","e","r">>,
     <<"U","s","a","g","e","-","b","a","s","e","d"," ","b","i","l","l","i","n","g">>,
     <<"L","i","m","i","t","e","d"," ","d","o","c","u","m","e","n","t","a","t","i","o","n">> >>],
  \* Fly.io
  [id |-> <<"f","l","y","i","o">>,
   name |-> <<"F","l","y",".","i","o">>,
   category |-> <<"H","o","s","t","i","n","g">>,
   description |-> <<"G","l","o","b","a","l"," ","a","p","p","l","i","c","a","t","i","o","n"," ","p","l","a","t","f","o","r","m"," ","w","i","t","h"," ","e","d","g","e"," ","d","e","p","l","o","y","m","e","n","t">>,
   tiers |-> <<
     [name |-> <<"F","r","e","e">>,
      price |-> <<"₹","0","/","m","o","n","t","h">>,
      features |-> <<
        <<"3"," ","s","h","a","r","e","d"," ","V","M","s">>,
        <<"1"," ","G","B"," ","m","e","m","o","r","y">>,
        <<"1"," ","C","P","U"," ","c","o","r","e">> >>],
     [name |-> <<"P","a","i","d">>,
      price |-> <<"₹","1","4","5","/","V","M","/","m","o","n","t","h">>,
      features |-> <<
        <<"A","d","d","i","t","i","o","n","a","l"," ","V","M","s">>,
        <<"C","u","s","t","o","m"," ","r","e","s","o","u","r","c","e","s">>,
        <<"G","l","o","b","a","l"," ","d","e","p","l","o","y","m","e","n","t">> >>],
     [name |-> <<"E","n","t","e","r","p","r","i","s","e">>,
      price |-> <<"C","u","s","t","o","m">>,
      features |-> <<
        <<"D","e","d","i","c","a","t","e","d"," ","s","u","p","p","o","r","t">>,
        <<"S","L","A"," ","g","u","a","r","a","n","t","e","e","s">>,
        <<"C","u","s","t","o","m"," ","r","e","g","i","o","n","s">> >>] >>,
   advantages |-> <<
     <<"G","l","o","b","a","l"," ","e","d","g","e"," ","d","e","p","l","o","y","m","e","n","t">>,
     <<"D","o","c","k","e","r"," ","n","a","t","i","v","e">>,
     <<"L","o","w"," ","l","a","t","e","n","c","y">>,
     <<"P","a","y"," ","p","e","r"," ","r","e","s","o","u","r","c","e">> >>,
   disadvantages |-> <<
     <<"C","o","m","p","l","e","x"," ","p","r","i","c","i","n","g">>,
     <<"L","e","a","r","n","i","n","g"," ","c","u","r","v","e">>,
     <<"L","i","m","i","t","e","d"," ","f","r","e","e"," ","t","i","e","r">> >>],
  \* Heroku
  [id |-> <<"h","e","r","o","k","u">>,
   name |-> <<"H","e","r","o","k","u">>,
   category |-> <<"H","o","s","t","i","n","g">>,
   description |-> <<"P","l","a","t","f","o","r","m"," ","a","s"," ","a"," ","S","e","r","v","i","c","e"," ","(","P","a","a","S",")"," ","w","i","t","h"," ","e","a","s","y"," ","d","e","p","l","o","y","m","e","n","t"," ","a","n","d"," ","s","c","a","l","i","n","g">>,
   tiers |-> <<
     [name |-> <<"E","c","o">>,
      price |-> <<"₹","4","1","5","/","m","o","n","t","h">>,
      features |-> <<
        <<"1",",","0","0","0"," ","d","y","n","o"," ","h","o","u","r","s">>,
        <<"S","l","e","e","p","s"," ","a","f","t","e","r"," ","3","0"," ","m","i","n">>,
        <<"S","h","a","r","e","d"," ","r","e","s","o","u","r","c","e","s">> >>],
     [name |-> <<"B","a","s","i","c">>,
      price |-> <<"₹","5","8","1","/","m","o","n","t","h">>,
      features |-> <<
        <<"A","l","w","a","y","s","-","o","n"," ","d","y","n","o","s">>,
        <<"U","p"," ","t","o"," ","1","0"," ","p","r","o","c","e","s","s"," ","t","y","p","e","s">>,
        <<"B","a","s","i","c"," ","m","e","t","r","i","c","s">> >>],
     [name |-> <<"S","t","a","n","d","a","r","d">>,
      price |-> <<"₹","2",",","0","7","5","/","m","o","n","t","h">>,
      features |-> <<
        <<"B","e","t","t","e","r"," ","p","e","r","f","o","r","m","a","n","c","e">>,
        <<"A","u","t","o","s","c","a","l","i","n","g">>,
        <<"E","n","h","a","n","c","e","d"," ","m","e","t","r","i","c","s">> >>],
     [name |-> <<"P","e","r","f","o","r","m","a","n","c","e">>,
      price |-> <<"₹","2","0",",","7","5","0","/","m","o","n","t","h">>,
      features |-> <<
        <<"D","e","d","i","c","a","t","e","d"," ","r","e","s","o","u","r","c","e","s">>,
        <<"A","d","v","a","n","c","e","d"," ","m","e","t","r","i","c","s">>,
        <<"E","n","t","e","r","p","r","i","s","e"," ","f","e","a","t","u","r","e","s">> >>] >>,
   advantages |-> <<
     <<"E","a","s","y"," ","t","o"," ","u","s","e">>,
     <<"G","r","e","a","t"," ","f","o","r"," ","b","e","g","i","n","n","e","r","s">>,
     <<"A","d","d","-","o","n"," ","e","c","o","s","y","s","t","e","m">>,
     <<"G","i","t","-","b","a","s","e","d"," ","d","e","p","l","o","y","m","e","n","t">> >>,
   disadvantages |-> <<
     <<"C","a","n"," ","b","e"," ","e","x","p","e","n","s","i","v","e">>,
     <<"V","e","n","d","o","r"," ","l","o","c","k","-","i","n">>,
     <<"L","i","m","i","t","e","d"," ","c","u","s","t","o","m","i","z","a","t","i","o","n">>,
     <<"C","o","l","d"," ","s","t","a","r","t","s"," ","o","n"," ","l","o","w","e","r"," ","t","i","e","r","s">> >>],
  \* AWS (Amazon Web Services)
  [id |-> <<"a","w","s">>,
   name |-> <<"A","W","S"," ","(","A","m","a","z","o","n"," ","W","e","b"," ","S","e","r","v","i","c","e","s",")">>,
   category |-> <<"H","o","s","t","i","n","g">>,
   description |-> <<"C","o","m","p","r","e","h","e","n","s","i","v","e"," ","c","l","o","u","d"," ","c","o","m","p","u","t","i","n","g"," ","p","l","a","t","f","o","r","m"," ","w","i","t","h"," ","e","x","t","e","n","s","i","v","e"," ","s","e","r","v","i","c","e","s">>,
   tiers |-> <<
     [name |-> <<"F","r","e","e"," ","T","i","e","r">>,
      price |-> <<"₹","0","/","m","o","n","t","h">>,
      features |-> <<
        <<"1","2"," ","m","o","n","t","h","s"," ","f","r","e","e">>,
        <<"7","5","0"," ","h","o","u","r","s"," ","E","C","2"," ","t","2",".","m","i","c","r","o">>,
        <<"L","i","m","i","t","e","d"," ","s","e","r","v","i","c","e","s">> >>],
     [name |-> <<"t","2",".","m","i","c","r","o">>,
      price |-> <<"₹","7","9","/","m","o","n","t","h">>,
      features |-> <<
        <<"1"," ","v","C","P","U">>,
        <<"1"," ","G","B"," ","R","A","M">>,
        <<"E","B","S","-","o","p","t","i","m","i","z","e","d">> >>],
     [name |-> <<"t","3",".","m","e","d","i","u","m">>,
      price |-> <<"₹","2",",","4","9","0","/","m","o","n","t","h">>,
      features |-> <<
        <<"2"," ","v","C","P","U","s">>,
        <<"4"," ","G","B"," ","R","A","M">>,
        <<"U","p"," ","t","o"," ","5"," ","G","b","p","s"," ","n","e","t","w","o","r","k">> >>],
     [name |-> <<"E","n","t","e","r","p","r","i","s","e">>,
      price |-> <<"C","u","s","t","o","m">>,
      features |-> <<
        <<"D","e","d","i","c","a","t","e","d"," ","s","u","p","p","o","r","t">>,
        <<"C","u","s","t","o","m"," ","c","o","n","f","i","g","u","r","a","t","i","o","n","s">>,
        <<"V","o","l","u","m","e"," ","d","i","s","c","o","u","n","t","s">> >>] >>,
   advantages |-> <<
     <<"M","o","s","t"," ","c","o","m","p","r","e","h","e","n","s","i","v","e">>,
     <<"G","l","o","b","a","l"," ","p","r","e","s","e","n","c","e">>,
     <<"E","n","t","e","r","p","r","i","s","e","-","g","r","a","d","e">>,
     <<"E","x","t","e","n","s","i","v","e"," ","s","e","r","v","i","c","e","s">> >>,
   disadvantages |-> <<
     <<"C","o","m","p","l","e","x"," ","p","r","i","c","i","n","g">>,
     <<"S","t","e","e","p"," ","l","e","a","r","n","i","n","g"," ","c","u","r","v","e">>,
     <<"C","a","n"," ","b","e"," ","e","x","p","e","n","s","i","v","e">>,
     <<"O","v","e","r","-","e","n","g","i","n","e","e","r","i","n","g"," ","r","i","s","k">> >>],
  \* OpenAI
  [id |-> <<"o","p","e","n","a","i">>,
   name |-> <<"O","p","e","n","A","I">>,
   category |-> <<"L","L","M","/","A","I">>,
   description |-> <<"A","d","v","a","n","c","e","d"," ","A","I"," ","m","o","d","e","l","s"," ","i","n","c","l","u","d","i","n","g"," ","G","P","T"," ","a","n","d"," ","i","m","a","g","e"," ","g","e","n","e","r","a","t","i","o","n">>,
   tiers |-> <<
     [name |-> <<"G","P","T","-","5"," ","N","a","n","o">>,
      price |-> <<"₹","4",".","1","5","/","M"," ","i","n","p","u","t"," ","t","o","k","e","n","s">>,
      features |-> <<
        <<"₹","3","3",".","2","0","/","M"," ","o","u","t","p","u","t">>,
        <<"F","a","s","t","e","s","t"," ","r","e","s","p","o","n","s","e">>,
        <<"C","o","s","t"," ","o","p","t","i","m","i","z","e","d">> >>],
     [name |-> <<"G","P","T","-","5"," ","M","i","n","i">>,
      price |-> <<"₹","2","0",".","7","5","/","M"," ","i","n","p","u","t"," ","t","o","k","e","n","s">>,
      features |-> <<
        <<"₹","1","6","6","/","M"," ","o","u","t","p","u","t">>,
        <<"B","a","l","a","n","c","e","d"," ","p","e","r","f","o","r","m","a","n","c","e">>,
        <<"G","o","o","d"," ","f","o","r"," ","m","o","s","t"," ","t","a","s","k","s">> >>],
     [name |-> <<"G","P","T","-","5">>,
      price |-> <<"₹","1","0","3",".","7","5","/","M"," ","i","n","p","u","t"," ","t","o","k","e","n","s">>,
      features |-> <<
        <<"₹","8","3","0","/","M"," ","o","u","t","p","u","t">>,
        <<"M","o","s","t"," ","c","a","p","a","b","l","e">>,
        <<"C","o","m","p","l","e","x"," ","r","e","a","s","o","n","i","n","g">> >>] >>,
   advantages |-> <<
     <<"S","t","a","t","e","-","o","f","-","t","h","e","-","a","r","t"," ","m","o","d","e","l","s">>,
     <<"W","i","d","e"," ","A","P","I"," ","c","o","v","e","r","a","g","e">>,
     <<"E","x","t","e","n","s","i","v","e"," ","d","o","c","u","m","e","n","t","a","t","i","o","n">>,
     <<"F","a","s","t"," ","i","n","f","e","r","e","n","c","e">> >>,
   disadvantages |-> <<
     <<"H","i","g","h","e","r"," ","c","o","s","t","s">>,
     <<"R","a","t","e"," ","l","i","m","i","t","s">>,
     <<"C","o","n","t","e","n","t"," ","p","o","l","i","c","i","e","s">>,
     <<"T","o","k","e","n","-","b","a","s","e","d"," ","p","r","i","c","i","n","g">> >>],
  \* Anthropic
  [id |-> <<"a","n","t","h","r","o","p","i","c">>,
   name |-> <<"A","n","t","h","r","o","p","i","c">>,
   category |-> <<"L","L","M","/","A","I">>,
   description |-> <<"C","l","a","u","d","e"," ","A","I"," ","m","o","d","e","l","s"," ","f","o","c","u","s","e","d"," ","o","n"," ","s","a","f","e","t","y"," ","a","n","d"," ","h","e","l","p","f","u","l","n","e","s","s">>,
   tiers |-> <<
     [name |-> <<"C","l","a","u","d","e"," ","3",".","5"," ","H","a","i","k","u">>,
      price |-> <<"₹","6","6",".","4","0","/","M"," ","i","n","p","u","t"," ","t","o","k","e","n","s">>,
      features |-> <<
        <<"₹","3","3","2","/","M"," ","o","u","t","p","u","t">>,
        <<"F","a","s","t"," ","&"," ","e","f","f","i","c","i","e","n","t">>,
        <<"G","o","o","d"," ","f","o","r"," ","s","i","m","p","l","e"," ","t","a","s","k","s">> >>],
     [name |-> <<"C","l","a","u","d","e"," ","S","o","n","n","e","t"," ","4">>,
      price |-> <<"₹","2","4","9","/","M"," ","i","n","p","u","t"," ","t","o","k","e","n","s">>,
      features |-> <<
        <<"₹","1",",","2","4","5","/","M"," ","o","u","t","p","u","t">>,
        <<"B","a","l","a","n","c","e","d"," ","m","o","d","e","l">>,
        <<"M","o","s","t"," ","p","o","p","u","l","a","r"," ","c","h","o","i","c","e">> >>],
     [name |-> <<"C","l","a","u","d","e"," ","O","p","u","s"," ","4">>,
      price |-> <<"₹","1",",","2","4","5","/","M"," ","i","n","p","u","t"," ","t","o","k","e","n","s">>,
      features |-> <<
        <<"₹","6",",","2","2","5","/","M"," ","o","u","t","p","u","t">>,
        <<"M","o","s","t"," ","c","a","p","a","b","l","e">>,
        <<"C","o","m","p","l","e","x"," ","r","e","a","s","o","n","i","n","g">> >>] >>,
   advantages |-> <<
     <<"S","a","f","e","t","y"," ","f","o","c","u","s","e","d">>,
     <<"L","o","n","g"," ","c","o","n","t","e","x","t"," ","w","i","n","d","o","w">>,
     <<"G","o","o","d"," ","r","e","a","s","o","n","i","n","g">>,
     <<"C","o","n","s","t","i","t","u","t","i","o","n","a","l"," ","A","I">> >>,
   disadvantages |-> <<
     <<"H","i","g","h","e","r"," ","p","r","i","c","i","n","g">>,
     <<"L","i","m","i","t","e","d"," ","a","v","a","i","l","a","b","i","l","i","t","y">>,
     <<"N","e","w","e","r"," ","e","c","o","s","y","s","t","e","m">>,
     <<"L","e","s","s"," ","t","o","o","l","i","n","g">> >>],
  \* Google AI (Gemini)
  [id |-> <<"g","o","o","g","l","e","-","a","i">>,
   name |-> <<"G","o","o","g","l","e"," ","A","I"," ","(","G","e","m","i","n","i",")">>,
   category |-> <<"L","L","M","/","A","I">>,
   description |-> <<"G","o","o","g","l","e","'","s"," ","m","u","l","t","i","m","o","d","a","l"," ","A","I"," ","m","o","d","e","l","s"," ","w","i","t","h"," ","v","i","s","i","o","n"," ","c","a","p","a","b","i","l","i","t","i","e","s">>,
   tiers |-> <<
     [name |-> <<"G","e","m","i","n","i"," ","2",".","5"," ","F","l","a","s","h","-","L","i","t","e">>,
      price |-> <<"₹","8",".","3","0","/","M"," ","i","n","p","u","t"," ","t","o","k","e","n","s">>,
      features |-> <<
        <<"₹","3","3",".","2","0","/","M"," ","o","u","t","p","u","t">>,
        <<"U","l","t","r","a"," ","f","a","s","t">>,
        <<"B","a","s","i","c"," ","t","a","s","k","s">> >>],
     [name |-> <<"G","e","m","i","n","i"," ","2",".","5"," ","F","l","a","s","h">>,
      price |-> <<"₹","2","4",".","9","0","/","M"," ","i","n","p","u","t"," ","t","o","k","e","n","s">>,
      features |-> <<
        <<"₹","2","0","7",".","5","0","/","M"," ","o","u","t","p","u","t">>,
        <<"F","a","s","t"," ","&"," ","c","a","p","a","b","l","e">>,
        <<"M","o","s","t"," ","v","e","r","s","a","t","i","l","e">> >>],
     [name |-> <<"G","e","m","i","n","i"," ","2",".","5"," ","P","r","o">>,
      price |-> <<"₹","1","0","3",".","7","5","/","M"," ","i","n","p","u","t"," ","t","o","k","e","n","s">>,
      features |-> <<
        <<"₹","8","3","0","/","M"," ","o","u","t","p","u","t">>,
        <<"M","o","s","t"," ","a","d","v","a","n","c","e","d">>,
        <<"C","o","m","p","l","e","x"," ","t","a","s","k","s">> >>] >>,
   advantages |-> <<
     <<"M","u","l","t","i","m","o","d","a","l"," ","c","a","p","a","b","i","l","i","t","i","e","s">>,
     <<"C","o","m","p","e","t","i","t","i","v","e"," ","p","r","i","c","i","n","g">>,
     <<"G","o","o","g","l","e"," ","e","c","o","s","y","s","t","e","m">>,
     <<"V","i","s","i","o","n"," ","f","e","a","t","u","r","e","s">> >>,
   disadvantages |-> <<
     <<"N","e","w","e","r"," ","p","l","a","t","f","o","r","m">>,
     <<"L","i","m","i","t","e","d"," ","a","v","a","i","l","a","b","i","l","i","t","y">>,
     <<"D","o","c","u","m","e","n","t","a","t","i","o","n"," ","g","a","p","s">>,
     <<"R","e","g","i","o","n","a","l"," ","r","e","s","t","r","i","c","t","i","o","n","s">> >>],
  \* Replicate
  [id |-> <<"r","e","p","l","i","c","a","t","e">>,
   name |-> <<"R","e","p","l","i","c","a","t","e">>,
   category |-> <<"L","L","M","/","A","I">>,
   description |-> <<"P","l","a","t","f","o","r","m"," ","f","o","r"," ","r","u","n","n","i","n","g"," ","o","p","e","n","-","s","o","u","r","c","e"," ","A","I"," ","m","o","d","e","l","s">>,
   tiers |-> <<
     [name |-> <<"P","a","y","-","p","e","r","-","u","s","e">>,
      price |-> <<"₹","0",".","0","1","-","1","/","p","r","e","d","i","c","t","i","o","n">>,
      features |-> <<
        <<"O","p","e","n"," ","s","o","u","r","c","e"," ","m","o","d","e","l","s">>,
        <<"N","o"," ","m","o","n","t","h","l","y"," ","f","e","e","s">>,
        <<"C","o","m","p","u","t","e","-","b","a","s","e","d"," ","p","r","i","c","i","n","g">> >>],
     [name |-> <<"P","r","o">>,
      price |-> <<"₹","1",",","6","6","0","/","m","o","n","t","h">>,
      features |-> <<
        <<"D","e","d","i","c","a","t","e","d"," ","c","a","p","a","c","i","t","y">>,
        <<"F","a","s","t","e","r"," ","s","t","a","r","t","u","p">>,
        <<"P","r","i","o","r","i","t","y"," ","s","u","p","p","o","r","t">> >>],
     [name |-> <<"E","n","t","e","r","p","r","i","s","e">>,
      price |-> <<"C","u","s","t","o","m">>,
      features |-> <<
        <<"P","r","i","v","a","t","e"," ","d","e","p","l","o","y","m","e","n","t","s">>,
        <<"S","L","A"," ","g","u","a","r","a","n","t","e","e","s">>,
        <<"C","u","s","t","o","m"," ","m","o","d","e","l","s">> >>] >>,
   advantages |-> <<
     <<"O","p","e","n"," ","s","o","u","r","c","e"," ","m","o","d","e","l","s">>,
     <<"P","a","y"," ","p","e","r"," ","u","s","e">>,
     <<"N","o"," ","l","o","c","k","-","i","n">>,
     <<"C","o","m","m","u","n","i","t","y"," ","d","r","i","v","e","n">> >>,
   disadvantages |-> <<
     <<"V","a","r","i","a","b","l","e"," ","p","e","r","f","o","r","m","a","n","c","e">>,
     <<"C","o","l","d"," ","s","t","a","r","t","s">>,
     <<"L","i","m","i","t","e","d"," ","s","u","p","p","o","r","t">>,
     <<"C","o","m","p","u","t","e"," ","c","o","s","t","s">> >>],
  \* MongoDB Atlas
  [id |-> <<"m","o","n","g","o","d","b","-","a","t","l","a","s">>,
   name |-> <<"M","o","n","g","o","D","B"," ","A","t","l","a","s">>,
   category |-> <<"D","a","t","a","b","a","s","e">>,
   description |-> <<"F","u","l","l","y"," ","m","a","n","a","g","e","d"," ","M","o","n","g","o","D","B"," ","d","a","t","a","b","a","s","e"," ","s","e","r","v","i","c","e">>,
   tiers |-> <<
     [name |-> <<"F","r","e","e">>,
      price |-> <<"₹","0","/","m","o","n","t","h">>,
      features |-> <<
        <<"5","1","2"," ","M","B"," ","s","t","o","r","a","g","e">>,
        <<"S","h","a","r","e","d"," ","c","l","u","s","t","e","r","s">>,
        <<"B","a","s","i","c"," ","m","o","n","i","t","o","r","i","n","g">> >>],
     [name |-> <<"D","e","d","i","c","a","t","e","d">>,
      price |-> <<"₹","4",",","6","5","0","/","m","o","n","t","h">>,
      features |-> <<
        <<"2"," ","G","B"," ","R","A","M">>,
        <<"1","0"," ","G","B"," ","s","t","o","r","a","g","e">>,
        <<"D","e","d","i","c","a","t","e","d"," ","c","l","u","s","t","e","r","s">> >>],
     [name |-> <<"D","e","d","i","c","a","t","e","d"," ","(","L","a","r","g","e",")">>,
      price |-> <<"₹","2","4",",","9","0","0","/","m","o","n","t","h">>,
      features |-> <<
        <<"8"," ","G","B"," ","R","A","M">>,
        <<"4","0"," ","G","B"," ","s","t","o","r","a","g","e">>,
        <<"H","i","g","h"," ","p","e","r","f","o","r","m","a","n","c","e">> >>],
     [name |-> <<"E","n","t","e","r","p","r","i","s","e">>,
      price |-> <<"C","u","s","t","o","m">>,
      features |-> <<
        <<"A","d","v","a","n","c","e","d"," ","s","e","c","u","r","i","t","y">>,
        <<"M","u","l","t","i","-","r","e","g","i","o","n">>,
        <<"2","4","/","7"," ","s","u","p","p","o","r","t">> >>] >>,
   advantages |-> <<
     <<"M","a","n","a","g","e","d"," ","s","e","r","v","i","c","e">>,
     <<"G","l","o","b","a","l"," ","c","l","u","s","t","e","r","s">>,
     <<"B","u","i","l","t","-","i","n"," ","s","e","c","u","r","i","t","y">>,
     <<"E","a","s","y"," ","s","c","a","l","i","n","g">> >>,
   disadvantages |-> <<
     <<"C","a","n"," ","b","e"," ","e","x","p","e","n","s","i","v","e">>,
     <<"V","e","n","d","o","r"," ","l","o","c","k","-","i","n">>,
     <<"C","o","m","p","l","e","x"," ","p","r","i","c","i","n","g">>,
     <<"N","e","t","w","o","r","k"," ","c","h","a","r","g","e","s">> >>],
  \* PlanetScale
  [id |-> <<"p","l","a","n","e","t","s","c","a","l","e">>,
   name |-> <<"P","l","a","n","e","t","S","c","a","l","e">>,
   category |-> <<"D","a","t","a","b","a","s","e">>,
   description |-> <<"S","e","r","v","e","r","l","e","s","s"," ","M","y","S","Q","L"," ","p","l","a","t","f","o","r","m"," ","w","i","t","h"," ","b","r","a","n","c","h","i","n","g">>,
   tiers |-> <<
     [name |-> <<"S","c","a","l","e","r">>,
      price |-> <<"₹","3",",","2","5","0","/","m","o","n","t","h">>,
      features |-> <<
        <<"5"," ","G","B"," ","s","t","o","r","a","g","e">>,
        <<"1"," ","b","i","l","l","i","o","n"," ","r","e","a","d","s">>,
        <<"1","0"," ","m","i","l","l","i","o","n"," ","w","r","i","t","e","s">> >>],
     [name |-> <<"S","c","a","l","e","r"," ","P","r","o">>,
      price |-> <<"₹","6",",","5","0","0","/","m","o","n","t","h">>,
      features |-> <<
        <<"2","5"," ","G","B"," ","s","t","o","r","a","g","e">>,
        <<"1","0"," ","b","i","l","l","i","o","n"," ","r","e","a","d","s">>,
        <<"1","0","0"," ","m","i","l","l","i","o","n"," ","w","r","i","t","e","s">> >>],
     [name |-> <<"E","n","t","e","r","p","r","i","s","e">>,
      price |-> <<"C","u","s","t","o","m">>,
      features |-> <<
        <<"C","u","s","t","o","m"," ","l","i","m","i","t","s">>,
        <<"S","L","A"," ","g","u","a","r","a","n","t","e","e","s">>,
        <<"A","d","v","a","n","c","e","d"," ","f","e","a","t","u","r","e","s">> >>] >>,
   advantages |-> <<
     <<"D","a","t","a","b","a","s","e"," ","b","r","a","n","c","h","i","n","g">>,
     <<"S","e","r","v","e","r","l","e","s","s"," ","s","c","a","l","i","n","g">>,
     <<"Z","e","r","o"," ","d","o","w","n","t","i","m","e"," ","s","c","h","e","m","a"," ","c","h","a","n","g","e","s">>,
     <<"M","y","S","Q","L"," ","c","o","m","p","a","t","i","b","l","e">> >>,
   disadvantages |-> <<
     <<"N","o"," ","f","r","e","e"," ","t","i","e","r">>,
     <<"M","y","S","Q","L"," ","o","n","l","y">>,
     <<"L","e","a","r","n","i","n","g"," ","c","u","r","v","e">>,
     <<"R","e","l","a","t","i","v","e","l","y"," ","n","e","w">> >>],
  \* Supabase
  [id |-> <<"s","u","p","a","b","a","s","e">>,
   name |-> <<"S","u","p","a","b","a","s","e">>,
   category |-> <<"D","a","t","a","b","a","s","e">>,
   description |-> <<"O","p","e","n"," ","s","o","u","r","c","e"," ","F","i","r","e","b","a","s","e"," ","a","l","t","e","r","n","a","t","i","v","e"," ","w","i","t","h"," ","P","o","s","t","g","r","e","S","Q","L">>,
   tiers |-> <<
     [name |-> <<"F","r","e","e">>,
      price |-> <<"₹","0","/","m","o","n","t","h">>,
      features |-> <<
        <<"5","0","0"," ","M","B"," ","d","a","t","a","b","a","s","e">>,
        <<"5","0"," ","M","B"," ","f","i","l","e"," ","s","t","o","r","a","g","e">>,
        <<"5","0",",","0","0","0"," ","m","o","n","t","h","l","y"," ","a","c","t","i","v","e"," ","u","s","e","r","s">> >>],
     [name |-> <<"P","r","o">>,
      price |-> <<"₹","2",",","0","8","0","/","m","o","n","t","h">>,
      features |-> <<
        <<"8"," ","G","B"," ","d","a","t","a","b","a","s","e">>,
        <<"1","0","0"," ","G","B"," ","f","i","l","e"," ","s","t","o","r","a","g","e">>,
        <<"1","0","0",",","0","0","0"," ","m","o","n","t","h","l","y"," ","a","c","t","i","v","e"," ","u","s","e","r","s">> >>],
     [name |-> <<"T","e","a","m">>,
      price |-> <<"₹","2",",","0","8","0","/","m","e","m","b","e","r","/","m","o","n","t","h">>,
      features |-> <<
        <<"P","r","o"," ","f","e","a","t","u","r","e","s">>,
        <<"T","e","a","m"," ","c","o","l","l","a","b","o","r","a","t","i","o","n">>,
        <<"R","e","a","d"," ","r","e","p","l","i","c","a","s">> >>],
     [name |-> <<"E","n","t","e","r","p","r","i","s","e">>,
      price |-> <<"C","u","s","t","o","m">>,
      features |-> <<
        <<"S","L","A"," ","g","u","a","r","a","n","t","e","e","s">>,
        <<"A","d","v","a","n","c","e","d"," ","s","e","c","u","r","i","t","y">>,
        <<"P","r","i","o","r","i","t","y"," ","s","u","p","p","o","r","t">> >>] >>,
   advantages |-> <<
     <<"O","p","e","n"," ","s","o","u","r","c","e">>,
     <<"R","e","a","l","-","t","i","m","e"," ","f","e","a","t","u","r","e","s">>,
     <<"A","u","t","h"," ","b","u","i","l","t","-","i","n">>,
     <<"P","o","s","t","g","r","e","S","Q","L"," ","b","a","s","e","d">> >>,
   disadvantages |-> <<
     <<"S","m","a","l","l","e","r"," ","e","c","o","s","y","s","t","e","m">>,
     <<"L","i","m","i","t","e","d"," ","r","e","g","i","o","n","s">>,
     <<"N","e","w","e","r"," ","p","l","a","t","f","o","r","m">>,
     <<"P","o","s","t","g","r","e","S","Q","L"," ","o","n","l","y">> >>],
  \* SendGrid
  [id |-> <<"s","e","n","d","g","r","i","d">>,
   name |-> <<"S","e","n","d","G","r","i","d">>,
   category |-> <<"E","m","a","i","l">>,
   description |-> <<"E","m","a","i","l"," ","d","e","l","i","v","e","r","y"," ","a","n","d"," ","m","a","r","k","e","t","i","n","g"," ","p","l","a","t","f","o","r","m">>,
   tiers |-> <<
     [name |-> <<"F","r","e","e">>,
      price |-> <<"₹","0","/","m","o","n","t","h">>,
      features |-> <<
        <<"1","0","0"," ","e","m","a","i","l","s","/","d","a","y">>,
        <<"B","a","s","i","c"," ","a","n","a","l","y","t","i","c","s">>,
        <<"E","m","a","i","l"," ","A","P","I">> >>],
     [name |-> <<"E","s","s","e","n","t","i","a","l","s">>,
      price |-> <<"₹","1",",","6","6","0","/","m","o","n","t","h">>,
      features |-> <<
        <<"5","0",",","0","0","0"," ","e","m","a","i","l","s">>,
        <<"E","m","a","i","l"," ","v","a","l","i","d","a","t","i","o","n">>,
        <<"2","4","/","7"," ","s","u","p","p","o","r","t">> >>],
     [name |-> <<"P","r","o">>,
      price |-> <<"₹","7",",","5","0","0","/","m","o","n","t","h">>,
      features |-> <<
        <<"1","0","0",",","0","0","0"," ","e","m","a","i","l","s">>,
        <<"A","d","v","a","n","c","e","d"," ","a","n","a","l","y","t","i","c","s">>,
        <<"A","/","B"," ","t","e","s","t","i","n","g">> >>],
     [name |-> <<"P","r","e","m","i","e","r">>,
      price |-> <<"C","u","s","t","o","m">>,
      features |-> <<
        <<"H","i","g","h"," ","v","o","l","u","m","e">>,
        <<"D","e","d","i","c","a","t","e","d"," ","I","P">>,
        <<"C","u","s","t","o","m"," ","i","n","t","e","g","r","a","t","i","o","n","s">> >>] >>,
   advantages |-> <<
     <<"H","i","g","h"," ","d","e","l","i","v","e","r","a","b","i","l","i","t","y">>,
     <<"C","o","m","p","r","e","h","e","n","s","i","v","e"," ","A","P","I","s">>,
     <<"M","a","r","k","e","t","i","n","g"," ","t","o","o","l","s">>,
     <<"R","e","l","i","a","b","l","e"," ","s","e","r","v","i","c","e">> >>,
   disadvantages |-> <<
     <<"C","a","n"," ","b","e"," ","e","x","p","e","n","s","i","v","e">>,
     <<"C","o","m","p","l","e","x"," ","p","r","i","c","i","n","g">>,
     <<"L","e","a","r","n","i","n","g"," ","c","u","r","v","e">>,
     <<"S","u","p","p","o","r","t"," ","q","u","a","l","i","t","y"," ","v","a","r","i","e","s">> >>],
  \* Mailgun
  [id |-> <<"m","a","i","l","g","u","n">>,
   name |-> <<"M","a","i","l","g","u","n">>,
   category |-> <<"E","m","a","i","l">>,
   description |-> <<"E","m","a","i","l"," ","A","P","I"," ","s","e","r","v","i","c","e"," ","f","o","r"," ","d","e","v","e","l","o","p","e","r","s">>,
   tiers |-> <<
     [name |-> <<"F","r","e","e">>,
      price |-> <<"₹","0","/","m","o","n","t","h">>,
      features |-> <<
        <<"1","0","0"," ","e","m","a","i","l","s","/","d","a","y">>,
        <<"B","a","s","i","c"," ","t","r","a","c","k","i","n","g">>,
        <<"A","P","I"," ","a","c","c","e","s","s">> >>],
     [name |-> <<"F","o","u","n","d","a","t","i","o","n">>,
      price |-> <<"₹","1",",","2","5","0","/","m","o","n","t","h">>,
      features |-> <<
        <<"1","0",",","0","0","0"," ","e","m","a","i","l","s">>,
        <<"E","m","a","i","l"," ","v","a","l","i","d","a","t","i","o","n">>,
        <<"A","n","a","l","y","t","i","c","s">> >>],
     [name |-> <<"G","r","o","w","t","h">>,
      price |-> <<"₹","2",",","9","0","0","/","m","o","n","t","h">>,
      features |-> <<
        <<"5","0",",","0","0","0"," ","e","m","a","i","l","s">>,
        <<"A","d","v","a","n","c","e","d"," ","t","r","a","c","k","i","n","g">>,
        <<"W","e","b","h","o","o","k","s">> >>],
     [name |-> <<"S","c","a","l","e">>,
      price |-> <<"₹","7",",","5","0","0","/","m","o","n","t","h">>,
      features |-> <<
        <<"1","0","0",",","0","0","0"," ","e","m","a","i","l","s">>,
        <<"D","e","d","i","c","a","t","e","d"," ","I","P">>,
        <<"P","r","i","o","r","i","t","y"," ","s","u","p","p","o","r","t">> >>] >>,
   advantages |-> <<
     <<"D","e","v","e","l","o","p","e","r"," ","f","o","c","u","s","e","d">>,
     <<"G","o","o","d"," ","d","o","c","u","m","e","n","t","a","t","i","o","n">>,
     <<"F","l","e","x","i","b","l","e"," ","A","P","I">>,
     <<"E","U","/","U","S"," ","r","e","g","i","o","n","s">> >>,
   disadvantages |-> <<
     <<"L","i","m","i","t","e","d"," ","t","e","m","p","l","a","t","e","s">>,
     <<"N","o"," ","m","a","r","k","e","t","i","n","g"," ","t","o","o","l","s">>,
     <<"T","e","c","h","n","i","c","a","l"," ","s","e","t","u","p">>,
     <<"S","u","p","p","o","r","t"," ","r","e","s","p","o","n","s","e"," ","t","i","m","e">> >>],
  \* Resend
  [id |-> <<"r","e","s","e","n","d">>,
   name |-> <<"R","e","s","e","n","d">>,
   category |-> <<"E","m","a","i","l">>,
   description |-> <<"M","o","d","e","r","n"," ","e","m","a","i","l"," ","A","P","I"," ","f","o","r"," ","d","e","v","e","l","o","p","e","r","s">>,
   tiers |-> <<
     [name |-> <<"F","r","e","e">>,
      price |-> <<"₹","0","/","m","o","n","t","h">>,
      features |-> <<
        <<"3",",","0","0","0"," ","e","m","a","i","l","s","/","m","o","n","t","h">>,
        <<"1"," ","d","o","m","a","i","n">>,
        <<"E","m","a","i","l"," ","A","P","I">> >>],
     [name |-> <<"P","r","o">>,
      price |-> <<"₹","1",",","6","6","0","/","m","o","n","t","h">>,
      features |-> <<
        <<"5","0",",","0","0","0"," ","e","m","a","i","l","s">>,
        <<"C","u","s","t","o","m"," ","d","o","m","a","i","n","s">>,
        <<"A","n","a","l","y","t","i","c","s">> >>],
     [name |-> <<"B","u","s","i","n","e","s","s">>,
      price |-> <<"₹","3",",","3","2","0","/","m","o","n","t","h">>,
      features |-> <<
        <<"1","0","0",",","0","0","0"," ","e","m","a","i","l","s">>,
        <<"T","e","a","m"," ","f","e","a","t","u","r","e","s">>,
        <<"W","e","b","h","o","o","k","s">> >>],
     [name |-> <<"E","n","t","e","r","p","r","i","s","e">>,
      price |-> <<"C","u","s","t","o","m">>,
      features |-> <<
        <<"C","u","s","t","o","m"," ","v","o","l","u","m","e">>,
        <<"D","e","d","i","c","a","t","e","d"," ","s","u","p","p","o","r","t">>,
        <<"S","L","A">> >>] >>,
   advantages |-> <<
     <<"M","o","d","e","r","n"," ","d","e","v","e","l","o","p","e","r"," ","e","x","p","e","r","i","e","n","c","e">>,
     <<"G","r","e","a","t"," ","d","o","c","u","m","e","n","t","a","t","i","o","n">>,
     <<"S","i","m","p","l","e"," ","p","r","i","c","i","n","g">>,
     <<"R","e","a","c","t"," ","e","m","a","i","l"," ","i","n","t","e","g","r","a","t","i","o","n">> >>,
   disadvantages |-> <<
     <<"N","e","w","e","r"," ","s","e","r","v","i","c","e">>,
     <<"L","i","m","i","t","e","d"," ","f","e","a","t","u","r","e","s">>,
     <<"S","m","a","l","l"," ","m","a","r","k","e","t"," ","s","h","a","r","e">>,
     <<"N","o"," ","m","a","r","k","e","t","i","n","g"," ","t","o","o","l","s">> >>] >>

\* ------------------------------------------------------ generated catalogs
\* Services the generated catalogs are drawn from; each differs from the
\* dataset's entries in one respect the handlers are sensitive to (letter
\* case of name and category, a price without digits, a price above the
\* sentinel 999999, equal keys).
svc_render ==
  [id |-> <<"r","e","n","d","e","r">>,
   name |-> <<"R","e","n","d","e","r">>,
   category |-> <<"H","o","s","t","i","n","g">>,
   description |-> <<"C","l","o","u","d"," ","p","l","a","t","f","o","r","m">>,
   tiers |-> <<
     [name |-> <<"F","r","e","e">>,
      price |-> <<"₹","0","/","m","o","n","t","h">>,
      features |-> <<
        <<"7","5","0"," ","h","o","u","r","s">> >>],
     [name |-> <<"P","r","o">>,
      price |-> <<"C","u","s","t","o","m">>,
      features |-> <<
        <<"S","L","A">> >>] >>,
   advantages |-> <<
     <<"F","r","e","e"," ","t","i","e","r">> >>,
   disadvantages |-> <<
     <<"C","o","l","d"," ","s","t","a","r","t","s">> >>]

svc_aws ==
  [id |-> <<"a","w","s">>,
   name |-> <<"a","w","s">>,
   category |-> <<"h","o","s","t","i","n","g">>,
   description |-> <<"C","l","o","u","d"," ","c","o","m","p","u","t","i","n","g">>,
   tiers |-> <<
     [name |-> <<"E","n","t","e","r","p","r","i","s","e">>,
      price |-> <<"C","u","s","t","o","m">>,
      features |-> <<
        <<"F","r","e","e"," ","s","u","p","p","o","r","t">> >>] >>,
   advantages |-> <<
     <<"G","l","o","b","a","l">> >>,
   disadvantages |-> <<
     <<"C","o","m","p","l","e","x"," ","p","r","i","c","i","n","g">> >>]

svc_awsgov ==
  [id |-> <<"a","w","s","-","g","o","v">>,
   name |-> <<"A","W","S">>,
   category |-> <<"H","o","s","t","i","n","g">>,
   description |-> <<"S","i","m","p","l","e"," ","p","r","i","c","i","n","g"," ","f","o","r"," ","a","g","e","n","c","i","e","s">>,
   tiers |-> <<
     [name |-> <<"P","r","o">>,
      price |-> <<"₹","1",",","5","0","0","/","u","s","e","r","/","m","o","n","t","h">>,
      features |-> <<
        <<"A","u","d","i","t">> >>],
     [name |-> <<"F","r","e","e">>,
      price |-> <<"₹","0","/","m","o","n","t","h">>,
      features |-> <<>>] >>,
   advantages |-> <<
     <<"C","o","m","p","l","i","a","n","c","e">> >>,
   disadvantages |-> <<
     <<"A","p","p","r","o","v","a","l">> >>]

svc_netlify ==
  [id |-> <<"n","e","t","l","i","f","y">>,
   name |-> <<"N","e","t","l","i","f","y">>,
   category |-> <<"H","o","s","t","i","n","g">>,
   description |-> <<"W","e","b"," ","d","e","p","l","o","y","s">>,
   tiers |-> <<
     [name |-> <<"S","t","a","r","t","e","r">>,
      price |-> <<"F","r","e","e">>,
      features |-> <<
        <<"1","0","0"," ","G","B">> >>] >>,
   advantages |-> <<
     <<"F","o","r","m","s">> >>,
   disadvantages |-> <<
     <<"B","u","i","l","d"," ","l","i","m","i","t","s">> >>]

svc_coolify ==
  [id |-> <<"c","o","o","l","i","f","y">>,
   name |-> <<"C","o","o","l","i","f","y">>,
   category |-> <<"h","o","s","t","i","n","g">>,
   description |-> <<"S","e","l","f","-","h","o","s","t","e","d"," ","P","a","a","S">>,
   tiers |-> <<
     [name |-> <<"C","l","o","u","d">>,
      price |-> <<"C","o","n","t","a","c","t"," ","s","a","l","e","s">>,
      features |-> <<
        <<"Q","u","o","t","e">> >>] >>,
   advantages |-> <<
     <<"F","l","a","t"," ","p","r","i","c","i","n","g">> >>,
   disadvantages |-> <<
     <<"S","e","t","u","p">> >>]

svc_oracle ==
  [id |-> <<"o","r","a","c","l","e">>,
   name |-> <<"O","r","a","c","l","e">>,
   category |-> <<"D","a","t","a","b","a","s","e">>,
   description |-> <<"M","a","n","a","g","e","d"," ","S","Q","L">>,
   tiers |-> <<
     [name |-> <<"E","x","a","d","a","t","a">>,
      price |-> <<"₹","1",",","0","0","0",",","0","0","0","/","y","e","a","r">>,
      features |-> <<
        <<"R","a","c","k","s">> >>] >>,
   advantages |-> <<
     <<"E","n","t","e","r","p","r","i","s","e","-","g","r","a","d","e">> >>,
   disadvantages |-> <<
     <<"C","o","s","t">> >>]

ServicePool == {svc_render, svc_aws, svc_awsgov, svc_netlify, svc_coolify,
                svc_oracle}

\* Sequences of at most MaxServices distinct services of the pool.
Catalogs ==
  UNION {{c \in [1..n -> ServicePool] : \A i, j \in 1..n : c[i] = c[j] => i = j}
         : n \in 0..MaxServices}

\* ------------------------------------------------------------------ state
\* earlier is a history variable: an exchange that was answered before, kept
\* to compare a later answer to the same request with.
VARIABLES SAAS_SERVICES, request, response, earlier

vars == <<SAAS_SERVICES, request, response, earlier>>

\* No request is being served.
NoRequest == [op |-> "none"]

NoResponse == [status |-> 0]

\* No exchange has been kept.
NoExchange == [request |-> NoRequest, response |-> NoResponse, between |-> FALSE]

\* The module is loaded: the dataset is in place and nothing was requested.
Init ==
  /\ SAAS_SERVICES \in Catalogs \cup {ReferenceDataset}
  /\ request = NoRequest
  /\ response = NoResponse
  /\ earlier = NoExchange

\* ----------------------------------------------------------- get_services
\* Values of the query parameters. category and search are Optional[str];
\* sort_by and sort_order are only ever compared with == against literals, so
\* they are kept as whole strings.
STR_hosting == <<"h","o","s","t","i","n","g">>

STR_LLM == <<"L","L","M","/","A","I">>

STR_AWS == <<"A","W","S">>

STR_pricing == <<"p","r","i","c","i","n","g">>


CategoryParams == {None, Some(<<>>), Some(STR_all), Some(<<"A","l","l">>),
                   Some(STR_hosting), Some(STR_LLM)}

SearchParams == {None, Some(<<>>), Some(STR_AWS), Some(STR_Free),
                 Some(STR_pricing)}

SortByParams == {"name", "category", "price", "rating"}

SortOrderParams == {"asc", "desc", "DESC"}

\* CategoryFilter that knows the sentinel in lower case only.
CategoryFilter_sentinelCased(services, category) ==
  IF Truthy(category) /\ category[1] # STR_all
  THEN SelectSeq(services, LAMBDA s : Lower(s.category) = Lower(category[1]))
  ELSE services

\* CategoryFilter that compares the category with the parameter as given.
CategoryFilter_exact(services, category) ==
  IF Truthy(category) /\ Lower(category[1]) # STR_all
  THEN SelectSeq(services, LAMBDA s : s.category = category[1])
  ELSE services

\* if category and category.lower() != "all": keep the services whose
\* lower-cased category equals the lower-cased parameter.
CategoryFilter(services, category) ==
  IF Truthy(category) /\ Lower(category[1]) # STR_all
  THEN SelectSeq(services, LAMBDA s : Lower(s.category) = Lower(category[1]))
  ELSE services

\* SearchMatch that looks into the disadvantages as well.
SearchMatch_disadvantages(s, search_lower) ==
  \/ Contains(search_lower, Lower(s.name))
  \/ Contains(search_lower, Lower(s.description))
  \/ \E i \in 1..Len(s.advantages) : Contains(search_lower, Lower(s.advantages[i]))
  \/ \E i \in 1..Len(s.disadvantages) :
        Contains(search_lower, Lower(s.disadvantages[i]))

\* The comprehension's condition: the term is in the lower-cased name, or
\* description, or any lower-cased advantage.
SearchMatch(s, search_lower) ==
  \/ Contains(search_lower, Lower(s.name))
  \/ Contains(search_lower, Lower(s.description))
  \/ \E i \in 1..Len(s.advantages) : Contains(search_lower, Lower(s.advantages[i]))

\* if search: keep the services the lower-cased term matches.
SearchFilter(services, search) ==
  IF Truthy(search)
  THEN LET search_lower == Lower(search[1])
       IN  SelectSeq(services, LAMBDA s : SearchMatch(s, search_lower))
  ELSE services

\* The key that marks custom pricing in extract_price.
CustomSortKey == 999999

\* extract_price that does not look for the word Free.
extract_price_noFreeWord(service) ==
  LET first_tier_price == service.tiers[1].price
  IN  IF Contains(STR_rupee0, first_tier_price)
      THEN 0
      ELSE IF Contains(STR_Custom, first_tier_price)
      THEN CustomSortKey
      ELSE LET numbers == FindAll(ReplaceChar(first_tier_price, ","))
           IN  IF numbers # <<>> THEN ParseInt(numbers[1]) ELSE CustomSortKey

\* extract_price that tests for Custom before it tests for the free markers.
extract_price_customFirst(service) ==
  LET first_tier_price == service.tiers[1].price
  IN  IF Contains(STR_Custom, first_tier_price)
      THEN CustomSortKey
      ELSE IF Contains(STR_rupee0, first_tier_price) \/ Contains(STR_Free, first_tier_price)
      THEN 0
      ELSE LET numbers == FindAll(ReplaceChar(first_tier_price, ","))
           IN  IF numbers # <<>> THEN ParseInt(numbers[1]) ELSE CustomSortKey

\* extract_price(service): the sort key under sort_by == "price".
extract_price(service) ==
  LET first_tier_price == service.tiers[1].price
  IN  IF Contains(STR_rupee0, first_tier_price) \/ Contains(STR_Free, first_tier_price)
      THEN 0
      ELSE IF Contains(STR_Custom, first_tier_price)
      THEN CustomSortKey
      ELSE LET numbers == FindAll(ReplaceChar(first_tier_price, ","))
           IN  IF numbers # <<>> THEN ParseInt(numbers[1]) ELSE CustomSortKey

\* extract_price(service) raises: int() refuses the first run of digits.
extract_price_raises(service) ==
  LET first_tier_price == service.tiers[1].price
  IN  /\ ~(Contains(STR_rupee0, first_tier_price) \/ Contains(STR_Free, first_tier_price))
      /\ ~Contains(STR_Custom, first_tier_price)
      /\ LET numbers == FindAll(ReplaceChar(first_tier_price, ","))
         IN  numbers # <<>> /\ IntRaises(numbers[1])

\* KeyLess with the name and category keys left in their letter case.
KeyLess_cased(sort_by, a, b) ==
  CASE sort_by = "name"     -> StrLess(a.name, b.name)
    [] sort_by = "category" -> StrLess(a.category, b.category)
    [] sort_by = "price"    -> extract_price(a) < extract_price(b)

\* key(a) < key(b) for the key function of each sorting branch.
KeyLess(sort_by, a, b) ==
  CASE sort_by = "name"     -> StrLess(Lower(a.name), Lower(b.name))
    [] sort_by = "category" -> StrLess(Lower(a.category), Lower(b.category))
    [] sort_by = "price"    -> extract_price(a) < extract_price(b)

Reverse(xs) == [i \in 1..Len(xs) |-> xs[Len(xs) + 1 - i]]

\* A stable ascending sort: each element is placed after the elements
\* before it whose key is not greater.
RECURSIVE StableSort(_, _)
StableSort(xs, sort_by) ==
  IF xs = <<>> THEN <<>>
  ELSE LET rest == StableSort(SubSeq(xs, 1, Len(xs) - 1), sort_by)
           x    == xs[Len(xs)]
           k    == Cardinality({i \in 1..Len(rest) : ~KeyLess(sort_by, x, rest[i])})
       IN  SubSeq(rest, 1, k) \o <<x>> \o SubSeq(rest, k + 1, Len(rest))

\* list_sort that sorts ascending and reverses the outcome for reverse.
list_sort_flipped(xs, sort_by, reverse) ==
  IF reverse THEN Reverse(StableSort(xs, sort_by))
  ELSE StableSort(xs, sort_by)

\* list.sort(key=..., reverse=...): stable in both directions; with
\* reverse the list is reversed, sorted ascending and reversed again.
list_sort(xs, sort_by, reverse) ==
  IF reverse THEN Reverse(StableSort(Reverse(xs), sort_by))
  ELSE StableSort(xs, sort_by)

\* Sorting that falls back to the default key, name, for any other value.
Sorting_default(services, sort_by, sort_order) ==
  IF sort_by = "category" THEN list_sort(services, "category", sort_order = "desc")
  ELSE IF sort_by = "price" THEN list_sort(services, "price", sort_order = "desc")
  ELSE list_sort(services, "name", sort_order = "desc")

\* The if / elif chain on sort_by; no branch is taken for any other value.
Sorting(services, sort_by, sort_order) ==
  IF sort_by = "name" THEN list_sort(services, "name", sort_order = "desc")
  ELSE IF sort_by = "category" THEN list_sort(services, "category", sort_order = "desc")
  ELSE IF sort_by = "price" THEN list_sort(services, "price", sort_order = "desc")
  ELSE services

\* services.sort(key=extract_price) raises: the key function is applied to
\* every element of the list, and raises for one of them.
SortingRaises(services, sort_by) ==
  sort_by = "price" /\ \E i \in 1..Len(services) : extract_price_raises(services[i])

\* The list get_services returns.
ServicesResult(catalog, category, search, sort_by, sort_order) ==
  Sorting(SearchFilter(CategoryFilter(catalog, category), search), sort_by, sort_order)

\* get_services ends with an exception instead of returning.
ServicesRaises(catalog, category, search, sort_by) ==
  SortingRaises(SearchFilter(CategoryFilter(catalog, category), search), sort_by)

\* The answer to a request whose handler ended with an unhandled exception.
InternalServerError == [status |-> 500]

\* SortsGlobal for services = SAAS_SERVICES without .copy(): the list is the
\* global one unless a filter has bound the name to a new list.
SortsGlobal_alias(category, search) ==
  ~(Truthy(category) /\ Lower(category[1]) # STR_all) /\ ~Truthy(search)

\* Whether the list that services.sort() sorts in place is the list object
\* SAAS_SERVICES: services = SAAS_SERVICES.copy() makes it a new list.
SortsGlobal(category, search) == FALSE

\* The global list after the handler has run.
CatalogAfterServices(catalog, category, search, sort_by, sort_order) ==
  IF SortsGlobal(category, search)
  THEN Sorting(catalog, sort_by, sort_order)
  ELSE catalog

\* get_services with its parameters drawn from the given sets.
get_services_with(categories, searches, sort_bys, sort_orders) ==
  /\ request = NoRequest
  /\ \E category \in categories, search \in searches,
     sort_by \in sort_bys, sort_order \in sort_orders :
     /\ request' = [op |-> "get_services", category |-> category, search |-> search,
                    sort_by |-> sort_by, sort_order |-> sort_order]
     /\ response' = IF ServicesRaises(SAAS_SERVICES, category, search, sort_by)
                    THEN InternalServerError
                    ELSE [status |-> 200,
                          body |-> ServicesResult(SAAS_SERVICES, category, search,
                                                  sort_by, sort_order)]
     /\ SAAS_SERVICES' = CatalogAfterServices(SAAS_SERVICES, category, search,
                                              sort_by, sort_order)
     /\ UNCHANGED earlier

\* ------------------------------------------------------------ get_service
STR_render == <<"r","e","n","d","e","r">>

STR_missing == <<"d","o","e","s","-","n","o","t","-","e","x","i","s","t">>

ServiceIdParams == {STR_render, <<"R","e","n","d","e","r">>, <<"a","w","s">>,
                    <<"o","p","e","n","a","i">>, STR_missing}

\* Python's None where a service is expected.
NoService == [none |-> TRUE]

\* FirstWithId that compares the ids without regard to letter case.
FirstWithId_folded(services, service_id) ==
  LET hits == {i \in 1..Len(services) : Lower(services[i].id) = Lower(service_id)}
  IN  IF hits = {} THEN NoService
      ELSE services[CHOOSE i \in hits : \A j \in hits : i <= j]

\* next((s for s in SAAS_SERVICES if s["id"] == service_id), None)
FirstWithId(services, service_id) ==
  LET hits == {i \in 1..Len(services) : services[i].id = service_id}
  IN  IF hits = {} THEN NoService
      ELSE services[CHOOSE i \in hits : \A j \in hits : i <= j]

\* The handler's outcome: the service, or HTTPException(404).
ServiceResponse(services, service_id) ==
  LET service == FirstWithId(services, service_id)
  IN  IF service = NoService
      THEN [status |-> 404, detail |-> "Service not found"]
      ELSE [status |-> 200, body |-> service]

get_service ==
  /\ request = NoRequest
  /\ \E service_id \in ServiceIdParams :
     /\ request' = [op |-> "get_service", service_id |-> service_id]
     /\ response' = ServiceResponse(SAAS_SERVICES, service_id)
     /\ UNCHANGED <<SAAS_SERVICES, earlier>>

\* --------------------------------------------------------- get_categories
\* CategorySet that folds the letter case before removing duplicates.
CategorySet_folded(services) == {Lower(services[i].category) : i \in 1..Len(services)}

\* list(set(...)): the distinct category values.
CategorySet(services) == {services[i].category : i \in 1..Len(services)}

\* sorted(xs) for a set of strings: ascending by code point.
RECURSIVE SortedStrings(_)
SortedStrings(xs) ==
  IF xs = {} THEN <<>>
  ELSE LET m == CHOOSE x \in xs : \A y \in xs : y = x \/ StrLess(x, y)
       IN  <<m>> \o SortedStrings(xs \ {m})

get_categories ==
  /\ request = NoRequest
  /\ request' = [op |-> "get_categories"]
  /\ response' = [status |-> 200,
                  body |-> [categories |-> SortedStrings(CategorySet(SAAS_SERVICES))]]
  /\ UNCHANGED <<SAAS_SERVICES, earlier>>

\* ----------------------------------------------- get_cheapest_by_category
\* A price of the aggregation: an int, or float('inf').
Fin(n) == [inf |-> FALSE, val |-> n]

Inf == [inf |-> TRUE, val |-> 0]

\* a < b on such prices.
PriceLess(a, b) == ~a.inf /\ (b.inf \/ a.val < b.val)

\* The defaultdict's factory value.
DefaultEntry == [service |-> NoService, price |-> Inf]

\* cheapest_by_category[category]: reading a missing key inserts the
\* factory value.
Touch(d, category) ==
  IF category \in DOMAIN d THEN d ELSE d @@ (category :> DefaultEntry)

\* Compare without the comparison: the entry is replaced every time.
Compare_always(d, service, price) ==
  [Touch(d, service.category) EXCEPT ![service.category] =
     [service |-> service, price |-> price, tier |-> service.tiers[1]]]

\* Compare with <= for <: an equal price replaces the entry too.
Compare_orEqual(d, service, price) ==
  LET d1 == Touch(d, service.category)
  IN  IF ~PriceLess(d1[service.category].price, price)
      THEN [d1 EXCEPT ![service.category] =
              [service |-> service, price |-> price, tier |-> service.tiers[1]]]
      ELSE d1

\* if price < cheapest_by_category[category]["price"]: replace the entry.
Compare(d, service, price) ==
  LET d1 == Touch(d, service.category)
  IN  IF PriceLess(price, d1[service.category].price)
      THEN [d1 EXCEPT ![service.category] =
              [service |-> service, price |-> price, tier |-> service.tiers[1]]]
      ELSE d1

\* One iteration of the loop over SAAS_SERVICES.
CheapestStep(d, service) ==
  LET price_str == service.tiers[1].price
  IN  IF Contains(STR_rupee0, price_str) \/ Contains(STR_Free, price_str)
      THEN Compare(d, service, Fin(0))
      ELSE IF Contains(STR_Custom, price_str)
      THEN d
      ELSE LET numbers == FindAll(ReplaceChar(price_str, ","))
           IN  Compare(d, service,
                       IF numbers # <<>> THEN Fin(ParseInt(numbers[1])) ELSE Inf)

\* The dict after the loop has run over the first n services.
RECURSIVE CheapestLoop(_, _)
CheapestLoop(services, n) ==
  IF n = 0 THEN <<>>
  ELSE CheapestStep(CheapestLoop(services, n - 1), services[n])

\* An iteration of the loop raises: int() refuses the first run of digits.
CheapestRaises(services) ==
  \E i \in 1..Len(services) :
     LET price_str == services[i].tiers[1].price
     IN  /\ ~(Contains(STR_rupee0, price_str) \/ Contains(STR_Free, price_str))
         /\ ~Contains(STR_Custom, price_str)
         /\ LET numbers == FindAll(ReplaceChar(price_str, ","))
            IN  numbers # <<>> /\ IntRaises(numbers[1])

get_cheapest_by_category ==
  /\ request = NoRequest
  /\ request' = [op |-> "get_cheapest_by_category"]
  /\ response' = IF CheapestRaises(SAAS_SERVICES)
                 THEN InternalServerError
                 ELSE [status |-> 200,
                       body |-> CheapestLoop(SAAS_SERVICES, Len(SAAS_SERVICES))]
  /\ UNCHANGED <<SAAS_SERVICES, earlier>>

\* The response has been sent; the handler's frame is gone and the server
\* waits for the next request.
respond ==
  /\ request # NoRequest
  /\ request' = NoRequest
  /\ response' = NoResponse
  /\ earlier' = IF earlier = NoExchange THEN earlier
                ELSE [earlier EXCEPT !.between = TRUE]
  /\ UNCHANGED SAAS_SERVICES

get_services ==
  get_services_with(CategoryParams, SearchParams, SortByParams, SortOrderParams)

Next ==
  \/ respond
  \/ get_services
  \/ get_service
  \/ get_categories
  \/ get_cheapest_by_category

Spec == Init /\ [][Next]_vars

\* ------------------------------------------------------- terms of the spec
\* The entry tier's price string.
EntryPrice(s) == s.tiers[1].price

\* The price carries the zero-currency marker or the word Free.
FreeMarked(p) == Contains(STR_rupee0, p) \/ Contains(STR_Free, p)

HasDigit(p) == \E i \in 1..Len(p) : IsDigit(p[i])

\* Unranked price: marked Custom, or without any digit, and not free.
Unranked(p) == ~FreeMarked(p) /\ (Contains(STR_Custom, p) \/ ~HasDigit(p))

\* The number a ranked price stands for: 0 when free, else the value of the
\* first maximal digit run once the commas are removed.
RankedValue(p) ==
  IF FreeMarked(p) THEN 0
  ELSE LET t     == ReplaceChar(p, ",")
           from  == CHOOSE i \in 1..Len(t) :
                      IsDigit(t[i]) /\ \A j \in 1..(i - 1) : ~IsDigit(t[j])
           to    == CHOOSE k \in from..Len(t) :
                      /\ \A j \in from..k : IsDigit(t[j])
                      /\ (k = Len(t) \/ ~IsDigit(t[k + 1]))
       IN  ParseInt(SubSeq(t, from, to))

\* The services of the catalog, as a set.
CatalogSet == {SAAS_SERVICES[i] : i \in 1..Len(SAAS_SERVICES)}

\* The place of a service in the catalog's definition order.
CatalogPos(s) == CHOOSE i \in 1..Len(SAAS_SERVICES) : SAAS_SERVICES[i] = s

\* a and b are the same string up to letter case.
SameIgnoringCase(a, b) ==
  /\ Len(a) = Len(b)
  /\ \A i \in 1..Len(a) :
        a[i] = b[i] \/ LowerChar[a[i]] = b[i] \/ a[i] = LowerChar[b[i]]

\* The category parameter lets the service through: it is absent, empty or
\* the sentinel, or it is the service's category up to letter case.
PassesCategory(s, category) ==
  \/ category = None
  \/ category[1] = <<>>
  \/ SameIgnoringCase(category[1], STR_all)
  \/ SameIgnoringCase(category[1], s.category)

\* The lower-cased term occurs in the lower-cased name, description or one
\* of the advantages.
TermFound(s, term) ==
  LET t == Lower(term)
  IN  \/ Contains(t, Lower(s.name))
      \/ Contains(t, Lower(s.description))
      \/ \E i \in 1..Len(s.advantages) : Contains(t, Lower(s.advantages[i]))

\* The search parameter lets the service through.
PassesSearch(s, search) ==
  search = None \/ search[1] = <<>> \/ TermFound(s, search[1])

Served(op) == request.op = op

Body == response.body

BodySet == {Body[i] : i \in 1..Len(Body)}

\* ---------------------------------------------------------------- claims
\* An entry of the cheapest mapping is a winner of category c: a service of
\* that category with a ranked entry price, recorded with its tier and its
\* price, which no ranked service of the category undercuts.
IsWinner(e, c) ==
  /\ e.service \in CatalogSet
  /\ e.service.category = c
  /\ ~Unranked(EntryPrice(e.service))
  /\ e.price = Fin(RankedValue(EntryPrice(e.service)))
  /\ e.tier = e.service.tiers[1]
  /\ \A s \in CatalogSet :
        s.category = c /\ ~Unranked(EntryPrice(s))
          => e.price.val <= RankedValue(EntryPrice(s))

\* C1 as stated: the result of get_cheapest_by_category holds a winner for
\* every category that has a service whose entry-tier price is not marked
\* Custom, and the winner's price is at most that of every other candidate.
C1_WinnerPerNonCustomCategory ==
  Served("get_cheapest_by_category") =>
    \A s \in CatalogSet :
       ~Contains(STR_Custom, EntryPrice(s))
         => /\ s.category \in DOMAIN Body
            /\ IsWinner(Body[s.category], s.category)

\* C1 amended: the result of get_cheapest_by_category holds a winner for
\* every category that has a service with a ranked entry-tier price (free, or
\* not Custom and with a digit run), and the winner's price is at most that
\* of every other ranked service of the category.
C1_WinnerPerRankedCategory ==
  Served("get_cheapest_by_category") =>
    \A s \in CatalogSet :
       ~Unranked(EntryPrice(s))
         => /\ s.category \in DOMAIN Body
            /\ IsWinner(Body[s.category], s.category)

\* The winner of a category undercuts a ranked service of the category that
\* the catalog lists before it.
C1_Witness ==
  /\ Served("get_cheapest_by_category")
  /\ \E c \in DOMAIN Body :
        /\ IsWinner(Body[c], c)
        /\ \E s \in CatalogSet :
              /\ s.category = c
              /\ ~Unranked(EntryPrice(s))
              /\ RankedValue(EntryPrice(s)) > Body[c].price.val
              /\ CatalogPos(s) < CatalogPos(Body[c].service)

\* C2: a category all of whose services have an unranked entry-tier price
\* has no key in the result of get_cheapest_by_category, and every entry of
\* the result names a service of its category as the winner.
C2_UnrankedExcluded ==
  Served("get_cheapest_by_category") =>
    /\ \A c \in DOMAIN Body :
          Body[c].service \in CatalogSet /\ Body[c].service.category = c
    /\ \A c \in CategorySet(SAAS_SERVICES) :
          (\A s \in CatalogSet : s.category = c => Unranked(EntryPrice(s)))
            => c \notin DOMAIN Body

\* C3: under sort_by=price every service with an unranked entry-tier price
\* comes after every service with a ranked one when sort_order is asc, and
\* before it when sort_order is desc.
C3_UnrankedSortsAsLargest ==
  Served("get_services") /\ request.sort_by = "price" =>
    \A i, j \in 1..Len(Body) :
       Unranked(EntryPrice(Body[i])) /\ ~Unranked(EntryPrice(Body[j]))
         => /\ request.sort_order = "asc" => j < i
            /\ request.sort_order = "desc" => i < j

\* key(a) <= key(b) for the derived key of sort_by: the lower-cased name,
\* the lower-cased category, or the key extract_price gives.
KeyAtMost(sort_by, a, b) ==
  CASE sort_by = "name"     -> ~StrLess(Lower(b.name), Lower(a.name))
    [] sort_by = "category" -> ~StrLess(Lower(b.category), Lower(a.category))
    [] sort_by = "price"    -> extract_price(a) <= extract_price(b)

Recognized == {"name", "category", "price"}

\* C4: for sort_by in {name, category, price} every adjacent pair of the
\* result of get_services has non-decreasing keys under sort_order=asc and
\* non-increasing keys under sort_order=desc.
C4_OrderedByKey ==
  Served("get_services") /\ request.sort_by \in Recognized =>
    \A i \in 1..(Len(Body) - 1) :
       /\ request.sort_order = "asc"
            => KeyAtMost(request.sort_by, Body[i], Body[i + 1])
       /\ request.sort_order = "desc"
            => KeyAtMost(request.sort_by, Body[i + 1], Body[i])

\* A descending result of three services with strictly decreasing keys that
\* the catalog holds in another order.
C4_Witness ==
  /\ Served("get_services")
  /\ request.sort_by = "name"
  /\ request.sort_order = "desc"
  /\ Len(Body) = 3
  /\ \A i \in 1..2 : ~KeyAtMost("name", Body[i], Body[i + 1])
  /\ CatalogPos(Body[1]) > CatalogPos(Body[2])

\* C5: two returned services with equal sort keys stand in the result in
\* the order they have in the filtered catalog, under sort_order=asc and
\* under sort_order=desc.
C5_StableBothWays ==
  Served("get_services") /\ request.sort_by \in Recognized =>
    \A i, j \in 1..Len(Body) :
       /\ i < j
       /\ KeyAtMost(request.sort_by, Body[i], Body[j])
       /\ KeyAtMost(request.sort_by, Body[j], Body[i])
       => CatalogPos(Body[i]) < CatalogPos(Body[j])

\* A descending result where two services with equal keys follow a service
\* with a larger key that the catalog lists after them.
C5_Witness ==
  /\ Served("get_services")
  /\ request.sort_by \in Recognized
  /\ request.sort_order = "desc"
  /\ Len(Body) = 3
  /\ ~KeyAtMost(request.sort_by, Body[1], Body[2])
  /\ KeyAtMost(request.sort_by, Body[2], Body[3])
  /\ KeyAtMost(request.sort_by, Body[3], Body[2])
  /\ CatalogPos(Body[1]) > CatalogPos(Body[3])

\* The result holds only services of the category parameter, up to letter
\* case, and all such services of the catalog that pass the search filter.
CategoryKept ==
  /\ \A s \in BodySet : SameIgnoringCase(s.category, request.category[1])
  /\ \A s \in CatalogSet :
        SameIgnoringCase(s.category, request.category[1])
          /\ PassesSearch(s, request.search)
        => s \in BodySet

\* C6 as stated: for every category value that is supplied and is not "all"
\* in any letter case, the result holds only services of that category and
\* all of them that pass the search filter.
C6_AnySuppliedCategory ==
  /\ Served("get_services")
  /\ request.category # None
  /\ ~SameIgnoringCase(request.category[1], STR_all)
  => CategoryKept

\* C6 amended: for every non-empty category value that is supplied and is not
\* "all" in any letter case, the result holds only services of that category
\* and all of them that pass the search filter.
C6_NonEmptyCategory ==
  /\ Served("get_services")
  /\ request.category # None
  /\ request.category[1] # <<>>
  /\ ~SameIgnoringCase(request.category[1], STR_all)
  => CategoryKept

\* A lower-case category value returns a service whose category is written
\* with a capital and leaves out a service of another category.
C6_Witness ==
  /\ Served("get_services")
  /\ request.category = Some(STR_hosting)
  /\ \E s \in BodySet : s.category # STR_hosting
  /\ \E s \in CatalogSet : s \notin BodySet /\ PassesSearch(s, request.search)

\* C7: with a search term, a service that passes the category filter is in
\* the result exactly when the lower-cased term occurs in its lower-cased
\* name, description or one of its advantages.
C7_SearchedFields ==
  Served("get_services") /\ request.search # None =>
    /\ \A s \in BodySet : s \in CatalogSet
    /\ \A s \in CatalogSet :
          PassesCategory(s, request.category)
            => (s \in BodySet <=> TermFound(s, request.search[1]))

\* The term occurs in a disadvantage of a service that is left out, while
\* another service is returned for its description or an advantage.
C7_Witness ==
  /\ Served("get_services")
  /\ request.search # None
  /\ request.category = None
  /\ \E s \in CatalogSet :
        /\ s \notin BodySet
        /\ \E i \in 1..Len(s.disadvantages) :
              Contains(Lower(request.search[1]), Lower(s.disadvantages[i]))
  /\ \E s \in BodySet : ~Contains(Lower(request.search[1]), Lower(s.name))

\* C8: an unrecognized sort_by is not rejected: the request succeeds with
\* the filtered services in catalog order, whatever sort_order is.
C8_UnknownSortByKeepsOrder ==
  Served("get_services") /\ request.sort_by \notin Recognized =>
    /\ response.status = 200
    /\ Body = SelectSeq(SAAS_SERVICES,
                LAMBDA s : PassesCategory(s, request.category)
                             /\ PassesSearch(s, request.search))

\* An unrecognized sort_by with sort_order=desc returns two services in
\* catalog order although their names are in ascending order.
C8_Witness ==
  /\ Served("get_services")
  /\ request.sort_by \notin Recognized
  /\ request.sort_order = "desc"
  /\ Len(Body) >= 2
  /\ StrLess(Lower(Body[1].name), Lower(Body[2].name))
  /\ Len(Body) < Len(SAAS_SERVICES)

\* C9: get_service returns a service with exactly the requested id when the
\* catalog has one and the 404 outcome otherwise; only get_service yields
\* 404, and get_services succeeds also with an empty list.
C9_LookupOrNotFound ==
  /\ Served("get_service") =>
       IF \E s \in CatalogSet : s.id = request.service_id
       THEN /\ response.status = 200
            /\ Body \in CatalogSet
            /\ Body.id = request.service_id
       ELSE response.status = 404
  /\ response.status = 404 => Served("get_service")
  /\ Served("get_services") => response.status = 200

\* An id that differs from a catalog id only in letter case is not found.
C9_Witness ==
  /\ Served("get_service")
  /\ response.status = 404
  /\ \E s \in CatalogSet : SameIgnoringCase(s.id, request.service_id)

\* C10: get_categories returns the distinct category values of the whole
\* catalog, compared exactly, in strictly ascending string order; for the
\* dataset of server.py these are Database, Email, Hosting, LLM/AI.
C10_CategoriesSortedDistinct ==
  Served("get_categories") =>
    LET cs == Body.categories
    IN  /\ \A i \in 1..(Len(cs) - 1) : StrLess(cs[i], cs[i + 1])
        /\ {cs[i] : i \in 1..Len(cs)} = {s.category : s \in CatalogSet}
        /\ SAAS_SERVICES = ReferenceDataset
             => cs = << <<"D","a","t","a","b","a","s","e">>,
                        <<"E","m","a","i","l">>,
                        <<"H","o","s","t","i","n","g">>,
                        STR_LLM >>

\* Two categories that differ only in letter case are both returned.
C10_Witness ==
  /\ Served("get_categories")
  /\ \E i, j \in 1..Len(Body.categories) :
        /\ i < j
        /\ SameIgnoringCase(Body.categories[i], Body.categories[j])

\* C11: when several ranked services of a category share the smallest
\* entry-tier price, the winner of get_cheapest_by_category is the first of
\* them in catalog order; a later service with an equal price never
\* replaces an earlier one.
C11_FirstOfTiedWins ==
  Served("get_cheapest_by_category") =>
    \A c \in DOMAIN Body :
       Body[c].service \in CatalogSet =>
         \A s \in CatalogSet :
            /\ s.category = c
            /\ ~Unranked(EntryPrice(s))
            /\ RankedValue(EntryPrice(s)) = Body[c].price.val
            => CatalogPos(Body[c].service) <= CatalogPos(s)

\* Two services of one category tie at the smallest price and the winner is
\* the one the catalog lists first.
C11_Witness ==
  /\ Served("get_cheapest_by_category")
  /\ \E c \in DOMAIN Body :
        /\ Body[c].service \in CatalogSet
        /\ \E s \in CatalogSet :
              /\ s.category = c
              /\ s # Body[c].service
              /\ ~Unranked(EntryPrice(s))
              /\ RankedValue(EntryPrice(s)) = Body[c].price.val
              /\ CatalogPos(Body[c].service) < CatalogPos(s)

\* C13: a category parameter equal to "all" in any letter case disables the
\* category filter: get_services returns the sequence it returns for the
\* same request without category, and with no search every catalog service.
C13_AllDisablesFilter ==
  /\ Served("get_services")
  /\ request.category # None
  /\ SameIgnoringCase(request.category[1], STR_all)
  => /\ Body = ServicesResult(SAAS_SERVICES, None, request.search,
                              request.sort_by, request.sort_order)
     /\ request.search = None => BodySet = CatalogSet /\ Len(Body) = Len(SAAS_SERVICES)

\* The sentinel written with a capital returns services of two categories.
C13_Witness ==
  /\ Served("get_services")
  /\ request.category = Some(<<"A","l","l">>)
  /\ \E s, t \in BodySet : ~SameIgnoringCase(s.category, t.category)

\* C18: an empty-string category or search parameter is treated as if the
\* parameter had been omitted: get_services returns the sequence it returns
\* for the same request without it.
C18_EmptyAsOmitted ==
  Served("get_services") =>
    /\ request.category = Some(<<>>)
         => Body = ServicesResult(SAAS_SERVICES, None, request.search,
                                  request.sort_by, request.sort_order)
    /\ request.search = Some(<<>>)
         => Body = ServicesResult(SAAS_SERVICES, request.category, None,
                                  request.sort_by, request.sort_order)

\* An empty category returns services of two categories.
C18_Witness ==
  /\ Served("get_services")
  /\ request.category = Some(<<>>)
  /\ \E s, t \in BodySet : ~SameIgnoringCase(s.category, t.category)

\* C14: no step changes the catalog: after any sequence of get_services,
\* get_service, get_categories and get_cheapest_by_category calls
\* SAAS_SERVICES holds the same services with the same fields in the same
\* order as at load.
C14_CatalogNeverMutated == [][SAAS_SERVICES' = SAAS_SERVICES]_vars

\* An unfiltered get_services has returned the whole catalog in another
\* order than the catalog has.
C14_Witness ==
  /\ Served("get_services")
  /\ request.category = None
  /\ request.search = None
  /\ Len(Body) = Len(SAAS_SERVICES)
  /\ Body # SAAS_SERVICES

\* ------------------------------------------------- price strings at large
\* The pieces generated price strings are made of: the currency sign,
\* digits, the separators, the two words the handlers look for, and a unit.
PriceTokens == {<<Rupee>>, <<"0">>, <<"1">>, <<"5">>, <<",">>, <<".">>,
                STR_Free, STR_Custom, <<"/","m","o">>}

\* The strings made of at most n tokens.
RECURSIVE TokenStrings(_)
TokenStrings(n) ==
  IF n <= 0 THEN {<<>>}
  ELSE LET shorter == TokenStrings(n - 1)
       IN  shorter \cup {s \o t : s \in shorter, t \in PriceTokens}

\* A service with the entry-tier price p (and p as its id).
PriceService(p) ==
  [id |-> p,
   name |-> <<"P","l","a","n">>,
   category |-> <<"H","o","s","t","i","n","g">>,
   description |-> <<>>,
   tiers |-> << [name |-> <<"E","n","t","r","y">>, price |-> p, features |-> <<>>] >>,
   advantages |-> <<>>,
   disadvantages |-> <<>>]

\* A price with one digit more than int() converts.
LongDigits == [i \in 1..(IntMaxStrDigits + 1) |-> "1"]

\* Catalogs of one service with any generated price or the long one, and of
\* two services with shorter prices.
PriceCatalogs ==
  {<<PriceService(p)>> : p \in TokenStrings(MaxTokens) \cup {LongDigits}}
  \cup {<<PriceService(pq[1]), PriceService(pq[2])>> :
          pq \in {pq \in TokenStrings(MaxTokens - 2) \X TokenStrings(MaxTokens - 2) :
                    pq[1] # pq[2]}}

InitPrices ==
  /\ SAAS_SERVICES \in PriceCatalogs
  /\ request = NoRequest
  /\ response = NoResponse
  /\ earlier = NoExchange

\* extract_price applied to every service of the catalog, as
\* services.sort(key=extract_price) does.
apply_extract_price ==
  /\ request = NoRequest
  /\ request' = [op |-> "extract_price"]
  /\ response' = IF SortingRaises(SAAS_SERVICES, "price")
                 THEN InternalServerError
                 ELSE [status |-> 200,
                       body |-> [i \in 1..Len(SAAS_SERVICES) |->
                                   extract_price(SAAS_SERVICES[i])]]
  /\ UNCHANGED <<SAAS_SERVICES, earlier>>

\* GET /api/services?sort_by=price with either sort_order.
get_services_by_price ==
  get_services_with({None}, {None}, {"price"}, {"asc", "desc"})

NextPrices ==
  \/ respond
  \/ apply_extract_price
  \/ get_services_by_price
  \/ get_cheapest_by_category

SpecPrices == InitPrices /\ [][NextPrices]_vars

\* ------------------------------------------------- claims on price strings
\* The price carries none of the three marks.
Unmarked(p) == ~FreeMarked(p) /\ ~Contains(STR_Custom, p)

\* What both copies of the extraction give for the unmarked prices of the
\* catalog when they return: the value of the first maximal digit run after
\* the commas are removed, and unranked (the key CustomSortKey in
\* extract_price, float('inf') in get_cheapest_by_category) without a digit.
ExtractionValues ==
  /\ Served("extract_price") /\ response.status = 200 =>
       \A i \in 1..Len(SAAS_SERVICES) :
          LET p == EntryPrice(SAAS_SERVICES[i])
          IN  Unmarked(p) =>
                Body[i] = IF HasDigit(p) THEN RankedValue(p) ELSE CustomSortKey
  /\ Served("get_cheapest_by_category") /\ response.status = 200
       /\ Len(SAAS_SERVICES) = 1 =>
       LET s == SAAS_SERVICES[1]
           p == EntryPrice(s)
       IN  Unmarked(p) =>
             /\ s.category \in DOMAIN Body
             /\ Body[s.category].price =
                  IF HasDigit(p) THEN Fin(RankedValue(p)) ELSE Inf

\* C16: for every price string without the zero-currency marker, Free and
\* Custom, price extraction (either copy) returns the value of the first
\* maximal run of decimal digits after all commas are removed, and unranked
\* when there is no digit; it never fails on any input string.
C16_ExtractsFirstDigitRunNeverFails ==
  /\ Served("extract_price") \/ Served("get_cheapest_by_category")
       => response.status = 200
  /\ ExtractionValues

\* The place of a service in a list that holds it.
PlaceIn(xs, s) == CHOOSE k \in 1..Len(xs) : xs[k] = s

\* C17: the sort key of get_services and the price computed in
\* get_cheapest_by_category agree on every entry-tier price: they fail on the
\* same prices, a price that the aggregation ranks has its number as sort
\* key, a price that it does not rank has the key of the unranked, and the
\* winner of a category is the first ranked service of that category in the
\* list sorted by ascending price.
C17_CopiesAgree ==
  Served("get_cheapest_by_category") =>
    /\ response.status = 500 <=> SortingRaises(SAAS_SERVICES, "price")
    /\ response.status = 200 =>
         /\ Len(SAAS_SERVICES) = 1 =>
              LET s == SAAS_SERVICES[1]
              IN  IF s.category \in DOMAIN Body /\ Body[s.category].service # NoService
                  THEN Body[s.category].price = Fin(extract_price(s))
                  ELSE extract_price(s) = CustomSortKey
         /\ LET sorted == ServicesResult(SAAS_SERVICES, None, None, "price", "asc")
            IN  \A c \in DOMAIN Body :
                   Body[c].service # NoService =>
                     \A j \in 1..Len(sorted) :
                        sorted[j].category = c /\ ~Unranked(EntryPrice(sorted[j]))
                          => PlaceIn(sorted, Body[c].service) <= j

\* Both copies rank a price that carries a free mark and the word Custom, and
\* the winner of two ranked services is the one the catalog lists second.
C17_Witness ==
  /\ Served("get_cheapest_by_category")
  /\ response.status = 200
  /\ \/ /\ Len(SAAS_SERVICES) = 1
        /\ FreeMarked(EntryPrice(SAAS_SERVICES[1]))
        /\ Contains(STR_Custom, EntryPrice(SAAS_SERVICES[1]))
        /\ Body[SAAS_SERVICES[1].category].price = Fin(0)
     \/ /\ Len(SAAS_SERVICES) = 2
        /\ ~Unranked(EntryPrice(SAAS_SERVICES[1]))
        /\ Body[SAAS_SERVICES[2].category].service = SAAS_SERVICES[2]

\* The request is GET /api/services?sort_by=price&sort_order=asc and has
\* been answered with a list.
SortedByPriceAsc ==
  /\ Served("get_services")
  /\ response.status = 200
  /\ request.sort_by = "price"
  /\ request.sort_order = "asc"

Dearer(p) == ~FreeMarked(p) /\ (Unranked(p) \/ RankedValue(p) > 0)

remember ==
  /\ request # NoRequest
  /\ earlier' = [request |-> request, response |-> response, between |-> FALSE]
  /\ request' = NoRequest
  /\ response' = NoResponse
  /\ UNCHANGED SAAS_SERVICES

\* GET /api/services with a few values of each parameter.
get_services_few ==
  get_services_with({None, Some(STR_hosting)}, {None}, {"name", "price", "rating"},
                    {"asc", "desc"})

NextRepeat ==
  \/ respond
  \/ remember
  \/ get_services_few
  \/ get_service
  \/ get_categories
  \/ get_cheapest_by_category

\* The catalog is one of the generated ones.
InitRepeat ==
  /\ SAAS_SERVICES \in Catalogs
  /\ request = NoRequest
  /\ response = NoResponse
  /\ earlier = NoExchange

SpecRepeat == InitRepeat /\ [][NextRepeat]_vars

\* C15: every result depends on the catalog and the request parameters only:
\* a request with the parameters of an earlier request gets the answer the
\* earlier one got, whatever requests were served before or between the two.
C15_SameRequestSameResult ==
  request = earlier.request => response = earlier.response

\* A list request is answered a second time, after another request was
\* served in between, with a list that is not in catalog order.
C15_Witness ==
  /\ Served("get_services")
  /\ request = earlier.request
  /\ earlier.between
  /\ Len(Body) >= 2
  /\ Body # SAAS_SERVICES
====
